---- MODULE Spec2Model ----
(***************************************************************************)
(* Verification model of the Azure web-app metrics exporters.              *)
(*                                                                         *)
(*   SpecNormalizer  get_metric_value applied to bounded API responses     *)
(*   Spec            AzureWebAppExporter (plan_name variant): collection   *)
(*                   cycles of update_metrics / get_azure_metrics          *)
(*   SpecSupervisor  MainExporter: two worker processes and their          *)
(*                   monitor_subprocess loops                              *)
(*   SpecPlan        the plan exporter (webapp_exporter_azure.py):         *)
(*                   load_config, initialize_metrics, update_metrics;      *)
(*                   SpecPlanFair adds the fairness of its own steps       *)
(*   SpecPlanMetrics the plan worker (plan_metrics.py): PlanMetrics.run    *)
(*   SpecSku         the SKU exporter (webapp_exporter_plan_21thazure.py): *)
(*                   the /metrics handler                                  *)
(*   SpecCopy        the exporter variant that commits after gathering     *)
(*                   (webapp_exporter_azure_副本.py)                        *)
(***************************************************************************)
EXTENDS Integers, Sequences, FiniteSets, TLC

VARIABLES
    \* ---- get_metric_value(metric_name, data) -> latest_value
    metric_name, data, latest_value, gmv_pc,
    \* ---- AzureWebAppExporter
    web_app_configs,    \* self.web_app_configs, as loaded by __init__
    loop_pc,            \* position of update_metrics in its while loop
    sleep_left,         \* time left of update_metrics' asyncio.sleep(60)
    tasks,              \* the get_azure_metrics coroutines of this cycle
    registry,           \* the gauge children: label key -> value
    \* ---- history of the exporter (read by the properties only)
    cycle,              \* cycles started so far
    fetch,              \* per task: the reply to its latest metrics request
    token_calls,        \* token exchanges made this cycle
    failed_now,         \* <<task, web app index>> whose fetch failed this cycle
    failed_earlier,     \* ... and in the cycle before
    cycle_age,          \* time since the latest cycle started
    requested,          \* per task: the web apps (by index) whose metrics
                        \* request has gone out this cycle, in order
    \* ---- MainExporter
    sup_pc,             \* position of run: "off", "start", "monitoring", "stopped"
    procs,              \* every process started so far; a pid is an index
    webapp_process,     \* run's local handles of the two processes it started
    plan_process,
    monitor,            \* per monitor_subprocess loop: its process and sleep
    \* ---- the plan exporter (src/webapp_exporter_azure.py)
    CONFIG_FILE,        \* the file of that name, as found at startup
    config,             \* __main__'s config, as loaded
    METRICS,            \* the gauges: metric key -> value
    main,               \* position of the program, with the locals of
                        \* initialize_metrics / update_metrics
    plan_cycles,        \* calls of update_metrics so far
    offered,            \* history: the metric keys update_metrics has had
                        \* an average for, with or without a gauge
    \* ---- PlanMetrics (src/sav/plan_metrics.py)
    pm_web_app_configs, \* self.web_app_configs
    pm_pc,              \* position of PlanMetrics.run
    pm_tasks,           \* the get_plan_specs coroutines handed to gather
    plan_static_metrics,\* the gauge children: label key -> value
    \* ---- the SKU exporter (src/webapp_exporter_plan_21thazure.py)
    sku_file,           \* the file CONFIG_FILE names, as every scrape finds it
    scrape,             \* position of the handler metrics(), with its locals
    scrapes,            \* calls of metrics() so far
    web_app_sku_metric, \* the children of each gauge: labels -> value
    web_app_instance_count_metric,
    web_app_cpu_metric,
    web_app_memory_metric,
    web_app_storage_metric,
    \* ---- the variant that commits after gathering (副本)
    copy_web_app_configs, \* self.web_app_configs
    copy_loop_pc,       \* position of update_metrics in its while loop
    copy_tasks,         \* the get_azure_metrics coroutines of this cycle
    copy_order,         \* the coroutines that have returned, in that order
    copy_registry,      \* the gauge children: label key -> value
    copy_cycle,         \* cycles started so far
    copy_produced       \* history: the values the sequences have computed

gmv_vars == <<metric_name, data, latest_value, gmv_pc>>
exporter_vars == <<web_app_configs, loop_pc, sleep_left, tasks, registry,
                   cycle, fetch, token_calls, failed_now, failed_earlier,
                   cycle_age, requested>>
sup_vars == <<sup_pc, procs, webapp_process, plan_process, monitor>>
plan_vars == <<CONFIG_FILE, config, METRICS, main, plan_cycles, offered>>
pm_vars == <<pm_web_app_configs, pm_pc, pm_tasks, plan_static_metrics>>
sku_vars == <<sku_file, scrape, scrapes, web_app_sku_metric,
              web_app_instance_count_metric, web_app_cpu_metric,
              web_app_memory_metric, web_app_storage_metric>>
copy_vars == <<copy_web_app_configs, copy_loop_pc, copy_tasks, copy_order,
               copy_registry, copy_cycle, copy_produced>>
vars == <<metric_name, data, latest_value, gmv_pc,
          web_app_configs, loop_pc, sleep_left, tasks, registry,
          cycle, fetch, token_calls, failed_now, failed_earlier,
          cycle_age, requested,
          sup_pc, procs, webapp_process, plan_process, monitor,
          CONFIG_FILE, config, METRICS, main, plan_cycles, offered,
          pm_web_app_configs, pm_pc, pm_tasks, plan_static_metrics,
          sku_file, scrape, scrapes, web_app_sku_metric,
          web_app_instance_count_metric, web_app_cpu_metric,
          web_app_memory_metric, web_app_storage_metric,
          copy_web_app_configs, copy_loop_pc, copy_tasks, copy_order,
          copy_registry, copy_cycle, copy_produced>>

(***************************************************************************)
(* Python values.  Numbers and None are tagged so that they can share one  *)
(* container; a dict is a record and "key in dict" is membership in its    *)
(* DOMAIN; a list is a sequence.                                           *)
(***************************************************************************)
Num(n) == [type |-> "number", val |-> n]
None == [type |-> "NoneType"]
IsNumber(v) == v.type = "number"

\* dict.get(key, default)
Get(d, key, default) == IF key \in DOMAIN d THEN d[key] ELSE default

\* list[-1]
Last(s) == s[Len(s)]

\* All sequences over S of length at most n.
SeqUpTo(S, n) == UNION {[1..k -> S] : k \in 0..n}

(***************************************************************************)
(* self.metric_groups                                                      *)
(***************************************************************************)
Intervals == <<"PT5M", "PT6H">>

\* Groups that share a metric name.
OverlappingGroups ==
    [PT5M |-> <<"CpuTime", "Requests">>,
     PT6H |-> <<"FileSystemUsage", "Requests">>]

metric_groups ==
    [PT5M |-> <<"CpuTime", "Requests", "BytesReceived", "BytesSent",
                "Http2xx", "Http3xx", "Http4xx", "Http5xx",
                "MemoryWorkingSet", "AverageMemoryWorkingSet",
                "AverageResponseTime", "HttpResponseTime",
                "IoReadBytesPerSecond", "IoWriteBytesPerSecond",
                "IoReadOperationsPerSecond", "IoWriteOperationsPerSecond",
                "HealthCheckStatus">>,
     PT6H |-> <<"FileSystemUsage">>]

Range(s) == {s[i] : i \in DOMAIN s}

MetricNames == Range(metric_groups.PT5M) \cup Range(metric_groups.PT6H)

(***************************************************************************)
(* str.lower() on the names that occur: the metric names of metric_groups  *)
(* and the spellings an API response may use for them.                     *)
(***************************************************************************)
LowerTable ==
    [CpuTime |-> "cputime", Requests |-> "requests",
     BytesReceived |-> "bytesreceived", BytesSent |-> "bytessent",
     Http2xx |-> "http2xx", Http3xx |-> "http3xx",
     Http4xx |-> "http4xx", Http5xx |-> "http5xx",
     MemoryWorkingSet |-> "memoryworkingset",
     AverageMemoryWorkingSet |-> "averagememoryworkingset",
     AverageResponseTime |-> "averageresponsetime",
     HttpResponseTime |-> "httpresponsetime",
     IoReadBytesPerSecond |-> "ioreadbytespersecond",
     IoWriteBytesPerSecond |-> "iowritebytespersecond",
     IoReadOperationsPerSecond |-> "ioreadoperationspersecond",
     IoWriteOperationsPerSecond |-> "iowriteoperationspersecond",
     HealthCheckStatus |-> "healthcheckstatus",
     FileSystemUsage |-> "filesystemusage",
     REQUESTS |-> "requests", requests |-> "requests",
     cputime |-> "cputime", filesystemusage |-> "filesystemusage"]

Lower(s) == LowerTable[s]

(***************************************************************************)
(* get_metric_value                                                        *)
(***************************************************************************)
Return(v) == [kind |-> "return", val |-> v]
Raise(e) == [kind |-> "raise", exc |-> e]

\* The fallback with average looked up before total.
FallbackValueAverageFirst(sample) ==
    Get(sample, "average",
        Get(sample, "total",
            Get(sample, "maximum",
                Get(sample, "sum", Num(0)))))

\* values[-1].get("total", values[-1].get("average",
\*     values[-1].get("maximum", values[-1].get("sum", 0))))
FallbackValue(sample) ==
    Get(sample, "total",
        Get(sample, "average",
            Get(sample, "maximum",
                Get(sample, "sum", Num(0)))))

\* The body of the try block: the loop over data.get("value", []) from
\* item i on, ending in a return or in the exception that leaves the block.
RECURSIVE ScanItems(_, _, _)
ScanItems(name, items, i) ==
    IF i > Len(items)
    THEN Return(Num(0))
    ELSE LET item == items[i] IN
         IF "name" \notin DOMAIN item
         THEN Raise("KeyError")
         ELSE IF Lower(item.name.value) = Lower(name)
              THEN LET timeseries_data == Get(item, "timeseries", <<>>) IN
                   IF timeseries_data # <<>>
                   THEN LET values == Get(timeseries_data[1], "data", <<>>) IN
                        IF values # <<>>
                        THEN Return(FallbackValue(Last(values)))
                        ELSE ScanItems(name, items, i + 1)
                   ELSE ScanItems(name, items, i + 1)
              ELSE ScanItems(name, items, i + 1)

GetMetricValueTry(name, d) == ScanItems(name, Get(d, "value", <<>>), 1)

\* The call without its except clause.
GetMetricValueNoExcept(name, d) == GetMetricValueTry(name, d)

\* try: ... except Exception: return 0
GetMetricValueCall(name, d) ==
    LET r == GetMetricValueTry(name, d) IN
    IF r.kind = "raise" THEN Return(Num(0)) ELSE r

get_metric_value(name, d) == GetMetricValueCall(name, d).val

(***************************************************************************)
(* Bounded API responses for get_metric_value.                             *)
(*                                                                         *)
(* A sample carries its timeStamp and any subset of the four aggregation   *)
(* fields; the value of a field tells which field it is, and one sample    *)
(* has total present with the JSON value null.                             *)
(***************************************************************************)
MaxSamples == 2
MaxSeries == 2
MaxItems == 2

Fields == {"total", "average", "maximum", "sum"}

FieldValue == [total |-> 1, average |-> 42, maximum |-> 3, sum |-> 4]

SampleWith(D) ==
    [k \in D \cup {"timeStamp"} |->
        IF k = "timeStamp" THEN "T" ELSE Num(FieldValue[k])]

NullTotalSample == [timeStamp |-> "T", total |-> None, average |-> Num(42)]

Samples == {SampleWith(D) : D \in SUBSET Fields} \cup {NullTotalSample}

NoDataSeries == [metadatavalues |-> <<>>]

SeriesOf(S, n) == {[data |-> v] : v \in SeqUpTo(S, n)} \cup {NoDataSeries}

\* Time-series that follow the first one of an entry.
LaterSeries == {[data |-> <<SampleWith({"total"})>>], [data |-> <<>>]}

SeriesLists(S, n) ==
    {<<>>} \cup
    {<<t>> \o rest : t \in SeriesOf(S, n), rest \in SeqUpTo(LaterSeries, MaxSeries - 1)}

ResponseNames == {"Requests", "REQUESTS", "CpuTime"}

EntriesOf(L) ==
    {[name |-> [value |-> n]] : n \in ResponseNames} \cup
    {[name |-> [value |-> n], timeseries |-> l] : n \in ResponseNames, l \in L}

\* An entry without a name: item["name"] raises KeyError.
NamelessEntry == [id |-> "x", timeseries |-> <<[data |-> <<SampleWith({"sum"})>>]>>]

\* Responses of one entry, with every shape of its time-series.
DeepResponses ==
    {[value |-> <<e>>] : e \in EntriesOf(SeriesLists(Samples, MaxSamples))}

\* Responses of several entries, with few shapes of time-series each.
FewSamples == {SampleWith({"average"}), SampleWith({"maximum", "sum"})}

WideResponses ==
    {[value |-> v] :
        v \in SeqUpTo(EntriesOf(SeriesLists(FewSamples, 1)) \cup {NamelessEntry},
                      MaxItems)}

\* A body without "value" (data.get("value", []) is []).
NoValueResponse == [timespan |-> "PT1H"]

Responses == DeepResponses \cup WideResponses \cup {NoValueResponse}

RequestedNames == {"Requests", "cputime"}

(***************************************************************************)
(* AzureWebAppExporter (plan_name variant): configuration and API replies. *)
(***************************************************************************)
MaxCycles == 2
MaxRequests == 4
MaxElapsed == 1
PACING_SLEEP == 1
CYCLE_SLEEP == 60

Config(rg, names) ==
    [tenant_id |-> "tenant", client_id |-> "client", client_secret |-> "secret",
     subscription_id |-> "sub", resource_group_name |-> rg,
     web_app_names |-> names]

\* What the configuration file can be at startup.
MissingFile == [kind |-> "missing"]
NotJsonFile == [kind |-> "not_json"]
JsonFile(json) == [kind |-> "json", json |-> json]

ConfigFiles ==
    {MissingFile,
     NotJsonFile,
     JsonFile(<<Config("G1", <<"W1">>)>>),
     JsonFile(<<Config("G1", <<"W1", "W2">>)>>)}

\* load_webapp_configs: the parsed file, or [] when open() raises
\* FileNotFoundError or json.load raises JSONDecodeError.
load_webapp_configs(file) ==
    IF file.kind \in {"missing", "not_json"} THEN <<>> ELSE file.json

Identity(cfg) == <<cfg.tenant_id, cfg.client_id, cfg.client_secret>>

\* A reply to session.get: a response with its status and JSON body, or an
\* exception raised by the request.
Response(status, json) == [kind |-> "response", status |-> status, json |-> json]
ClientError == [kind |-> "exception"]
NoBody == [message |-> "error"]

\* serverFarmId, held as its "/"-separated segments.
ServerFarmId ==
    <<"subscriptions", "sub", "resourceGroups", "G1", "providers",
      "Microsoft.Web", "serverfarms", "PlanA">>

PlanReplies ==
    {Response(200, [properties |-> [serverFarmId |-> ServerFarmId]]),
     Response(200, [properties |-> [state |-> "Running"]]),
     Response(404, NoBody),
     ClientError}

Sample(field, n) == [k \in {field, "timeStamp"} |-> IF k = "timeStamp" THEN "T" ELSE n]

Entry(name, samples) ==
    [name |-> [value |-> name], timeseries |-> <<[data |-> samples]>>]

\* Requests: the last sample has average = 42 and no total.
RequestsAverage42 ==
    [value |-> <<Entry("CpuTime", <<Sample("total", Num(3))>>),
                 Entry("Requests", <<Sample("total", Num(1)),
                                     Sample("average", Num(42))>>)>>]

\* Requests: the last sample has total with the JSON value null.
RequestsNullTotal ==
    [value |-> <<Entry("CpuTime", <<Sample("total", Num(5))>>),
                 Entry("Requests", <<Sample("total", None)>>)>>]

FileSystemUsage7 ==
    [value |-> <<Entry("FileSystemUsage", <<Sample("average", Num(7))>>)>>]

\* A body of unexpected shape: its only entry has no name.
NamelessFileSystemUsage ==
    [value |-> <<[id |-> "x",
                  timeseries |-> <<[data |-> <<Sample("average", Num(9))>>]>>]>>]

ApiData ==
    [PT5M |-> {RequestsAverage42, RequestsNullTotal},
     PT6H |-> {FileSystemUsage7, NamelessFileSystemUsage}]

MetricsReplies(interval) ==
    {Response(200, d) : d \in ApiData[interval]}
    \cup {Response(429, NoBody), ClientError}

\* What credential.get_token yields: a token, or an exception.
TokenReplies == {[kind |-> "token", token |-> "tokenA"],
                 [kind |-> "exception"]}

(***************************************************************************)
(* get_access_token: the token, or None (held as "", which `not` treats    *)
(* alike) when the exchange raises.                                        *)
(***************************************************************************)
get_access_token(reply) ==
    IF reply.kind = "token" THEN reply.token ELSE ""

(***************************************************************************)
(* get_webapp_plan_name                                                    *)
(***************************************************************************)
\* A plan lookup that hands back nothing when it fails.
PlanNameOrEmpty(reply) ==
    IF reply.kind = "response" /\ reply.status = 200
       /\ "serverFarmId" \in DOMAIN Get(reply.json, "properties", NoBody)
    THEN Last(reply.json.properties.serverFarmId)
    ELSE ""

get_webapp_plan_name(reply) ==
    IF reply.kind = "exception"
    THEN "unknown_plan"
    ELSE IF reply.status = 200
         THEN LET properties == Get(reply.json, "properties", NoBody) IN
              IF "serverFarmId" \in DOMAIN properties
              THEN Last(properties.serverFarmId)
              ELSE "unknown_plan"
         ELSE "unknown_plan"

(***************************************************************************)
(* The registry: prometheus_metric.labels(...).set(value)                  *)
(***************************************************************************)
Key(metric, rg, app, plan) ==
    [metric |-> metric, resource_group_name |-> rg,
     web_app_name |-> app, plan_name |-> plan]

\* labels(): the child of these labels, created with value 0 when new.
Labels(reg, key) ==
    IF key \in DOMAIN reg THEN reg
    ELSE [k \in DOMAIN reg \cup {key} |-> IF k = key THEN Num(0) ELSE reg[k]]

\* A set() that reaches every child of the registry.
SetEveryChild(reg, key, value) == [k \in DOMAIN reg |-> value]

\* set(value): float(value) raises TypeError on None.
GaugeSet(reg, key, value) == [reg EXCEPT ![key] = value]

\* Lines 141-148 from metric j on: the registry they leave, and whether
\* set() raised.
RECURSIVE SetGauges(_, _, _, _, _, _, _)
SetGauges(reg, names, j, d, rg, app, plan) ==
    IF j > Len(names)
    THEN [registry |-> reg, raised |-> FALSE]
    ELSE LET key == Key(names[j], rg, app, plan)
             value == get_metric_value(names[j], d)
             child == Labels(reg, key)
         IN IF IsNumber(value)
            THEN SetGauges(GaugeSet(child, key, value),
                           names, j + 1, d, rg, app, plan)
            ELSE [registry |-> child, raised |-> TRUE]

\* A failure branch that zeroes the web app's gauges.
ClearOnFailure(reg, reply, names, rg, app, plan) ==
    IF reply.kind = "response" /\ reply.status = 200
    THEN SetGauges(reg, names, 1, reply.json, rg, app, plan)
    ELSE [registry |-> [k \in DOMAIN reg |->
                           IF k.web_app_name = app /\ k.resource_group_name = rg
                           THEN Num(0) ELSE reg[k]],
          raised |-> FALSE]

\* A commit that takes the first sample of each series.
CommitFirstSample(reg, reply, names, rg, app, plan) ==
    IF reply.kind = "response" /\ reply.status = 200
    THEN SetGauges(reg, names, 1,
                   [value |-> [i \in DOMAIN Get(reply.json, "value", <<>>) |->
                       [reply.json.value[i] EXCEPT
                           !.timeseries[1].data = <<@[1]>>]]],
                   rg, app, plan)
    ELSE [registry |-> reg, raised |-> FALSE]

\* Lines 134-153: what the reply to the metrics request does to the registry.
OnMetricsReply(reg, reply, names, rg, app, plan) ==
    IF reply.kind = "response" /\ reply.status = 200
    THEN SetGauges(reg, names, 1, reply.json, rg, app, plan)
    ELSE [registry |-> reg, raised |-> FALSE]

\* How the replies are recorded in the history.
PlanStatus(reply) ==
    IF reply.kind = "exception" THEN "exception"
    ELSE IF reply.status # 200 THEN "http_error"
    ELSE IF "serverFarmId" \notin DOMAIN Get(reply.json, "properties", NoBody)
         THEN "no_plan"
    ELSE "ok"

FetchStatus(reply, raised) ==
    IF reply.kind = "exception" THEN "exception"
    ELSE IF reply.status # 200 THEN "http_error"
    ELSE IF raised THEN "commit_error"
    ELSE "ok"

(***************************************************************************)
(* The coroutines of one cycle.  Task k is get_azure_metrics(session,      *)
(* web_app_configs[ConfigOf(k)], IntervalOf(k)), in the order update_metrics*)
(* appends them.                                                           *)
(***************************************************************************)
NIntervals == Len(Intervals)
ConfigOf(k) == ((k - 1) \div NIntervals) + 1
IntervalOf(k) == Intervals[((k - 1) % NIntervals) + 1]
TaskConfig(k) == web_app_configs[ConfigOf(k)]
TaskIds == 1..(Len(web_app_configs) * NIntervals)
AppsOf(k) == TaskConfig(k).web_app_names

\* Metrics requests one cycle makes when every token is acquired.
RequestsPerCycle ==
    IF TaskIds = {} THEN 0
    ELSE LET RECURSIVE Sum(_)
             Sum(k) == IF k = 0 THEN 0 ELSE Len(AppsOf(k)) + Sum(k - 1)
         IN Sum(Len(web_app_configs) * NIntervals)

\* ",".join(names): the names with the separator between neighbours.
RECURSIVE Join(_, _)
Join(sep, names) ==
    IF names = <<>> THEN <<>>
    ELSE IF Len(names) = 1 THEN names
    ELSE <<names[1], sep>> \o Join(sep, Tail(names))

\* A lookback of one hour for every interval.
AlwaysPT1H(interval) == "PT1H"

\* Line 129: "PT24H" if interval == "PT6H" else "PT1H"
Timespan(interval) == IF interval = "PT6H" THEN "PT24H" ELSE "PT1H"

\* Lines 119 and 126-132: the query of a metrics request.
Params(interval) ==
    [metricnames |-> Join(",", metric_groups[interval]),
     timespan |-> Timespan(interval),
     interval |-> interval,
     metricnamespace |-> "Microsoft.Web/sites"]

\* No query built yet.
NoParams == [metricnames |-> <<>>, timespan |-> "", interval |-> "",
             metricnamespace |-> ""]

NewTask == [pc |-> "created", access_token |-> "", i |-> 0, plan_name |-> "",
            timer |-> 0, since_request |-> 0, params |-> NoParams]

NoFetch == [plan |-> "none", status |-> "none", data |-> NoBody]

\* A request goes out: the time since this sequence's last request restarts.
IssueRequest(t) == [t EXCEPT !.since_request = 0]

\* A loop over the web apps that ends after the first of them.
StopAfterFirst(i, names) == FALSE

\* Line 122: the for loop has a web app left after the i-th.
MoreApps(i, names) == i < Len(names)

\* A sequence that gives up at the first failed request.
ReturnOnFailure(status) ==
    IF status \in {"http_error", "exception"} THEN "returned" ELSE "sleep"

\* The sequence after the reply to a metrics request: whatever the reply,
\* it goes on to its pacing sleep (line 155).
AfterReply(status) == "sleep"

ExporterConstructed(cfgs) ==
    /\ web_app_configs = cfgs
    /\ loop_pc = "create_tasks"
    /\ sleep_left = 0
    /\ tasks = <<>>
    /\ registry = [k \in {} |-> Num(0)]
    /\ cycle = 0
    /\ fetch = <<>>
    /\ token_calls = 0
    /\ failed_now = {}
    /\ failed_earlier = {}
    /\ cycle_age = 0
    /\ requested = <<>>

NormalizerIdle ==
    /\ metric_name = ""
    /\ data = NoValueResponse
    /\ latest_value = [kind |-> "pending"]
    /\ gmv_pc = "idle"

SupervisorOff ==
    /\ sup_pc = "off"
    /\ procs = <<>>
    /\ webapp_process = 0
    /\ plan_process = 0
    /\ monitor = <<>>

PlanExporterOff ==
    /\ CONFIG_FILE = MissingFile
    /\ config = <<>>
    /\ METRICS = [k \in {} |-> Num(0)]
    /\ main = [pc |-> "off", phase |-> "none", e |-> 0, p |-> 0,
               access_token |-> "", plan_names |-> <<>>]
    /\ plan_cycles = 0
    /\ offered = {}

PlanMetricsOff ==
    /\ pm_web_app_configs = <<>>
    /\ pm_pc = "off"
    /\ pm_tasks = <<>>
    /\ plan_static_metrics = [k \in {} |-> Num(0)]

CopyExporterOff ==
    /\ copy_web_app_configs = <<>>
    /\ copy_loop_pc = "off"
    /\ copy_tasks = <<>>
    /\ copy_order = <<>>
    /\ copy_registry = [k \in {} |-> Num(0)]
    /\ copy_cycle = 0
    /\ copy_produced = {}

SkuExporterOff ==
    /\ sku_file = MissingFile
    /\ scrape = [pc |-> "off", config |-> <<>>, e |-> 0, w |-> 0, token |-> "",
                 plan_id |-> <<>>, instance_count |-> 0]
    /\ scrapes = 0
    /\ web_app_sku_metric = [k \in {} |-> Num(0)]
    /\ web_app_instance_count_metric = [k \in {} |-> Num(0)]
    /\ web_app_cpu_metric = [k \in {} |-> Num(0)]
    /\ web_app_memory_metric = [k \in {} |-> Num(0)]
    /\ web_app_storage_metric = [k \in {} |-> Num(0)]

\* __init__
Init ==
    /\ \E file \in ConfigFiles : ExporterConstructed(load_webapp_configs(file))
    /\ NormalizerIdle
    /\ SupervisorOff
    /\ PlanExporterOff
    /\ PlanMetricsOff
    /\ SkuExporterOff
    /\ CopyExporterOff

\* update_metrics, lines 160-166: a coroutine per configuration entry and
\* interval, handed to asyncio.gather.
CreateTasks ==
    /\ loop_pc = "create_tasks"
    /\ cycle < MaxCycles
    /\ (cycle + 1) * RequestsPerCycle <= MaxRequests
    /\ tasks' = [k \in TaskIds |-> NewTask]
    /\ fetch' = [k \in TaskIds |-> NoFetch]
    /\ token_calls' = 0
    /\ failed_earlier' = failed_now
    /\ failed_now' = {}
    /\ cycle' = cycle + 1
    /\ loop_pc' = "gather"
    /\ cycle_age' = 0
    /\ requested' = [k \in TaskIds |-> <<>>]
    /\ UNCHANGED <<web_app_configs, sleep_left, registry>>

\* get_azure_metrics, lines 103-123: the token, then the plan lookup of the
\* first web app.  The token call is synchronous: nothing else runs in it.
StartTask(k) ==
    /\ loop_pc = "gather"
    /\ tasks[k].pc = "created"
    /\ \A j \in 1..(k - 1) : tasks[j].pc # "created"
    /\ \E reply \in TokenReplies :
          LET access_token == get_access_token(reply)
              t == [tasks[k] EXCEPT !.access_token = access_token]
          IN /\ tasks' = [tasks EXCEPT ![k] =
                    IF access_token = "" \/ AppsOf(k) = <<>>
                    THEN [t EXCEPT !.pc = "returned"]
                    ELSE IssueRequest([t EXCEPT !.pc = "plan_request", !.i = 1])]
             /\ failed_now' = IF access_token = ""
                              THEN failed_now \cup {<<k, i>> : i \in DOMAIN AppsOf(k)}
                              ELSE failed_now
    /\ token_calls' = token_calls + 1
    /\ UNCHANGED <<web_app_configs, loop_pc, sleep_left, registry, cycle,
                   fetch, failed_earlier, cycle_age, requested>>

\* Lines 123-135: the plan lookup answers, and the metrics request goes out.
PlanReply(k) ==
    /\ loop_pc = "gather"
    /\ tasks[k].pc = "plan_request"
    /\ \E reply \in PlanReplies :
          /\ tasks' = [tasks EXCEPT ![k] =
                 IssueRequest([@ EXCEPT !.pc = "metrics_request",
                                        !.plan_name = get_webapp_plan_name(reply),
                                        !.params = Params(IntervalOf(k))])]
          /\ fetch' = [fetch EXCEPT ![k] =
                 [NoFetch EXCEPT !.plan = PlanStatus(reply), !.status = "pending"]]
    /\ requested' = [requested EXCEPT ![k] = Append(@, tasks[k].i)]
    /\ UNCHANGED <<web_app_configs, loop_pc, sleep_left, registry, cycle,
                   token_calls, failed_now, failed_earlier, cycle_age>>

\* Lines 135-155: the metrics request answers; on 200 the gauges are set;
\* then the pacing sleep starts.
MetricsReply(k) ==
    /\ loop_pc = "gather"
    /\ tasks[k].pc = "metrics_request"
    /\ \E reply \in MetricsReplies(IntervalOf(k)) :
          LET done == OnMetricsReply(registry, reply, metric_groups[IntervalOf(k)],
                                     TaskConfig(k).resource_group_name,
                                     AppsOf(k)[tasks[k].i],
                                     tasks[k].plan_name)
              status == FetchStatus(reply, done.raised)
          IN /\ registry' = done.registry
             /\ fetch' = [fetch EXCEPT ![k] =
                    [@ EXCEPT !.status = status,
                              !.data = IF reply.kind = "response" /\ reply.status = 200
                                       THEN reply.json ELSE NoBody]]
             /\ failed_now' = IF status \in {"http_error", "exception"}
                              THEN failed_now \cup {<<k, tasks[k].i>>}
                              ELSE failed_now
             /\ tasks' = [tasks EXCEPT ![k] =
                    IF AfterReply(status) = "sleep"
                    THEN [@ EXCEPT !.pc = "sleep", !.timer = PACING_SLEEP]
                    ELSE [@ EXCEPT !.pc = "returned"]]
    /\ UNCHANGED <<web_app_configs, loop_pc, sleep_left, cycle, token_calls,
                   failed_earlier, cycle_age, requested>>

\* Lines 155 and 122-123: the pacing sleep is over; the next web app's plan
\* lookup goes out, or the coroutine returns.
WakeTask(k) ==
    /\ loop_pc = "gather"
    /\ tasks[k].pc = "sleep"
    /\ tasks[k].timer = 0
    /\ tasks' = [tasks EXCEPT ![k] =
           IF MoreApps(@.i, AppsOf(k))
           THEN IssueRequest([@ EXCEPT !.pc = "plan_request", !.i = @ + 1,
                                       !.plan_name = ""])
           ELSE [@ EXCEPT !.pc = "returned"]]
    /\ fetch' = [fetch EXCEPT ![k] =
           IF MoreApps(tasks[k].i, AppsOf(k)) THEN NoFetch
           ELSE [@ EXCEPT !.plan = "none"]]
    /\ UNCHANGED <<web_app_configs, loop_pc, sleep_left, registry, cycle,
                   token_calls, failed_now, failed_earlier, cycle_age, requested>>

\* Lines 166-168: gather returns when every coroutine has; the session is
\* closed and update_metrics sleeps.
GatherDone ==
    /\ loop_pc = "gather"
    /\ \A k \in TaskIds : tasks[k].pc = "returned"
    /\ loop_pc' = "sleep"
    /\ sleep_left' = CYCLE_SLEEP
    /\ UNCHANGED <<web_app_configs, tasks, registry, cycle, fetch,
                   token_calls, failed_now, failed_earlier, cycle_age, requested>>

\* Line 168 to line 159: the sleep is over, the loop goes round.
WakeLoop ==
    /\ loop_pc = "sleep"
    /\ sleep_left = 0
    /\ loop_pc' = "create_tasks"
    /\ UNCHANGED <<web_app_configs, sleep_left, tasks, registry, cycle,
                   fetch, token_calls, failed_now, failed_earlier, cycle_age, requested>>

\* Time passes while coroutines wait: one unit, in which pacing sleeps run
\* down and the time since each sequence's last request grows.  The time
\* spent in gather is counted up to MaxElapsed.
Tick ==
    /\ loop_pc = "gather"
    /\ \E k \in TaskIds :
          \/ tasks[k].pc = "sleep" /\ tasks[k].timer > 0
          \/ tasks[k].pc \in {"plan_request", "metrics_request"}
                /\ tasks[k].since_request < MaxElapsed
    /\ tasks' = [k \in DOMAIN tasks |->
           IF tasks[k].pc \in {"plan_request", "metrics_request", "sleep"}
           THEN [tasks[k] EXCEPT
                    !.timer = IF @ > 0 THEN @ - 1 ELSE 0,
                    !.since_request = IF @ < MaxElapsed THEN @ + 1 ELSE @]
           ELSE tasks[k]]
    /\ cycle_age' = IF cycle_age < MaxElapsed THEN cycle_age + 1 ELSE cycle_age
    /\ UNCHANGED <<web_app_configs, loop_pc, sleep_left, registry, cycle, fetch,
                   token_calls, failed_now, failed_earlier, requested>>

\* Time passes while update_metrics sleeps and nothing else runs: the rest
\* of the sleep.
SleepElapses ==
    /\ loop_pc = "sleep"
    /\ sleep_left > 0
    /\ sleep_left' = 0
    /\ cycle_age' = cycle_age + sleep_left
    /\ UNCHANGED <<web_app_configs, loop_pc, tasks, registry, cycle, fetch,
                   token_calls, failed_now, failed_earlier, requested>>

Next ==
    \/ (CreateTasks /\ UNCHANGED <<gmv_vars, sup_vars, plan_vars, pm_vars, sku_vars, copy_vars>>)
    \/ (\E k \in TaskIds : StartTask(k) /\ UNCHANGED <<gmv_vars, sup_vars, plan_vars, pm_vars, sku_vars, copy_vars>>)
    \/ (\E k \in TaskIds : PlanReply(k) /\ UNCHANGED <<gmv_vars, sup_vars, plan_vars, pm_vars, sku_vars, copy_vars>>)
    \/ (\E k \in TaskIds : MetricsReply(k) /\ UNCHANGED <<gmv_vars, sup_vars, plan_vars, pm_vars, sku_vars, copy_vars>>)
    \/ (\E k \in TaskIds : WakeTask(k) /\ UNCHANGED <<gmv_vars, sup_vars, plan_vars, pm_vars, sku_vars, copy_vars>>)
    \/ (GatherDone /\ UNCHANGED <<gmv_vars, sup_vars, plan_vars, pm_vars, sku_vars, copy_vars>>)
    \/ (WakeLoop /\ UNCHANGED <<gmv_vars, sup_vars, plan_vars, pm_vars, sku_vars, copy_vars>>)
    \/ (Tick /\ UNCHANGED <<gmv_vars, sup_vars, plan_vars, pm_vars, sku_vars, copy_vars>>)
    \/ (SleepElapses /\ UNCHANGED <<gmv_vars, sup_vars, plan_vars, pm_vars, sku_vars, copy_vars>>)

Spec == Init /\ [][Next]_vars

(***************************************************************************)
(* SpecNormalizer: one call of get_metric_value on every bounded input.    *)
(***************************************************************************)
InitNormalizer ==
    /\ metric_name \in RequestedNames
    /\ data \in Responses
    /\ latest_value = [kind |-> "pending"]
    /\ gmv_pc = "call"
    /\ ExporterConstructed(<<>>)
    /\ SupervisorOff
    /\ PlanExporterOff
    /\ PlanMetricsOff
    /\ SkuExporterOff
    /\ CopyExporterOff

CallGetMetricValue ==
    /\ gmv_pc = "call"
    /\ latest_value' = GetMetricValueCall(metric_name, data)
    /\ gmv_pc' = "returned"
    /\ UNCHANGED <<metric_name, data>>
    /\ UNCHANGED <<exporter_vars, sup_vars, plan_vars, pm_vars, sku_vars, copy_vars>>

NextNormalizer == CallGetMetricValue

SpecNormalizer == InitNormalizer /\ [][NextNormalizer]_vars

(***************************************************************************)
(* MainExporter: run starts the two worker processes and a                 *)
(* monitor_subprocess loop for each.                                       *)
(***************************************************************************)
MaxProcesses == 4
POLL_SLEEP == 10

\* A string as the sequence of its characters.
WebAppMetricsName == <<"W", "e", "b", "A", "p", "p", " ", "M", "e", "t", "r", "i", "c", "s">>
PlanMetricsName == <<"P", "l", "a", "n", " ", "M", "e", "t", "r", "i", "c", "s">>
WebAppMetricsScript ==
    <<"w", "e", "b", "a", "p", "p", "_", "m", "e", "t", "r", "i", "c", "s", ".", "p", "y">>
PlanMetricsScript ==
    <<"p", "l", "a", "n", "_", "m", "e", "t", "r", "i", "c", "s", ".", "p", "y">>

WorkerNames == {WebAppMetricsName, PlanMetricsName}

UpperToLower ==
    [A |-> "a", B |-> "b", C |-> "c", D |-> "d", E |-> "e", F |-> "f",
     G |-> "g", H |-> "h", I |-> "i", J |-> "j", K |-> "k", L |-> "l",
     M |-> "m", N |-> "n", O |-> "o", P |-> "p", Q |-> "q", R |-> "r",
     S |-> "s", T |-> "t", U |-> "u", V |-> "v", W |-> "w", X |-> "x",
     Y |-> "y", Z |-> "z"]

\* str.lower()
StrLower(s) ==
    [i \in DOMAIN s |-> IF s[i] \in DOMAIN UpperToLower THEN UpperToLower[s[i]] ELSE s[i]]

\* str.replace(old, new) for a one-character old
StrReplace(s, old, new) == [i \in DOMAIN s |-> IF s[i] = old THEN new ELSE s[i]]

\* The script name without the replacement of blanks.
ScriptWithBlanks(name) == StrLower(name) \o <<".", "p", "y">>

\* f"{name.lower().replace(' ', '_')}.py"
ReplacementScript(name) ==
    StrReplace(StrLower(name), " ", "_") \o <<".", "p", "y">>

\* The script run starts for the worker a monitor is named after.
WorkerScript(name) ==
    IF name = WebAppMetricsName THEN WebAppMetricsScript ELSE PlanMetricsScript

\* subprocess.Popen(["python", script]): a new running process, the last of
\* procs.  unobserved_for counts the time the process has been dead while a
\* monitor still holds it without having polled it.
Popen(ps, script) ==
    Append(ps, [script |-> script, state |-> "running", unobserved_for |-> 0])

\* process.terminate()
Terminate(ps, pid) == [ps EXCEPT ![pid].state = "exited"]

\* A poll that takes every process for an exited one.
AlwaysExited(ps, pid) == TRUE

\* Line 27: process.poll() is not None
HasExited(ps, pid) == ps[pid].state = "exited"

InitSupervisor ==
    /\ sup_pc = "start"
    /\ procs = <<>>
    /\ webapp_process = 0
    /\ plan_process = 0
    /\ monitor = <<>>
    /\ ExporterConstructed(<<>>)
    /\ NormalizerIdle
    /\ PlanExporterOff
    /\ PlanMetricsOff
    /\ SkuExporterOff
    /\ CopyExporterOff

\* run, lines 11-18: both workers are started and a monitor is created for
\* each; a monitor polls as soon as it runs.
Run ==
    /\ sup_pc = "start"
    /\ procs' = Popen(Popen(procs, WorkerScript(WebAppMetricsName)),
                      WorkerScript(PlanMetricsName))
    /\ webapp_process' = 1
    /\ plan_process' = 2
    /\ monitor' = [name \in WorkerNames |->
                     [process |-> IF name = WebAppMetricsName THEN 1 ELSE 2,
                      timer |-> 0]]
    /\ sup_pc' = "monitoring"

\* monitor_subprocess, lines 27-30: poll; restart on exit; sleep 10.
Poll(name) ==
    /\ sup_pc = "monitoring"
    /\ monitor[name].timer = 0
    /\ IF HasExited(procs, monitor[name].process)
       THEN /\ procs' = Popen(procs, ReplacementScript(name))
            /\ monitor' = [monitor EXCEPT ![name] =
                   [process |-> Len(procs) + 1, timer |-> POLL_SLEEP]]
       ELSE /\ procs' = procs
            /\ monitor' = [monitor EXCEPT ![name].timer = POLL_SLEEP]
    /\ UNCHANGED <<sup_pc, webapp_process, plan_process>>

\* A worker process ends by itself.
WorkerExits(pid) ==
    /\ sup_pc = "monitoring"
    /\ pid \in DOMAIN procs
    /\ procs[pid].state = "running"
    /\ Len(procs) < MaxProcesses
    /\ procs' = Terminate(procs, pid)
    /\ UNCHANGED <<sup_pc, webapp_process, plan_process, monitor>>

\* One time unit passes; a monitor whose sleep is over polls first.
SupervisorTick ==
    /\ sup_pc = "monitoring"
    /\ \A name \in WorkerNames : monitor[name].timer > 0
    /\ monitor' = [name \in WorkerNames |-> [monitor[name] EXCEPT !.timer = @ - 1]]
    /\ procs' = [pid \in DOMAIN procs |->
                   IF /\ procs[pid].state = "exited"
                      /\ \E name \in WorkerNames : monitor[name].process = pid
                      /\ procs[pid].unobserved_for <= POLL_SLEEP
                   THEN [procs[pid] EXCEPT !.unobserved_for = @ + 1]
                   ELSE procs[pid]]
    /\ UNCHANGED <<sup_pc, webapp_process, plan_process>>

\* run, lines 19-22: the handler of the operator's interrupt terminates
\* the processes behind run's two handles, and run returns.
Shutdown ==
    /\ sup_pc = "monitoring"
    /\ procs' = Terminate(Terminate(procs, webapp_process), plan_process)
    /\ sup_pc' = "stopped"
    /\ UNCHANGED <<webapp_process, plan_process, monitor>>

NextSupervisor ==
    \/ (Run /\ UNCHANGED <<gmv_vars, exporter_vars, plan_vars, pm_vars, sku_vars, copy_vars>>)
    \/ (\E name \in WorkerNames : Poll(name) /\ UNCHANGED <<gmv_vars, exporter_vars, plan_vars, pm_vars, sku_vars, copy_vars>>)
    \/ (\E pid \in 1..MaxProcesses : WorkerExits(pid) /\ UNCHANGED <<gmv_vars, exporter_vars, plan_vars, pm_vars, sku_vars, copy_vars>>)
    \/ (SupervisorTick /\ UNCHANGED <<gmv_vars, exporter_vars, plan_vars, pm_vars, sku_vars, copy_vars>>)
    \/ (Shutdown /\ UNCHANGED <<gmv_vars, exporter_vars, plan_vars, pm_vars, sku_vars, copy_vars>>)

SpecSupervisor == InitSupervisor /\ [][NextSupervisor]_vars

(***************************************************************************)
(* The plan exporter, src/webapp_exporter_azure.py: a synchronous program  *)
(* that loads its configuration, registers one gauge per plan and metric,  *)
(* and then updates the gauges every 60 time units.  Names that end up in  *)
(* a gauge key are held as sequences of characters.                        *)
(***************************************************************************)
MaxPlanCycles == 2

METRIC_NAMES ==
    <<<<"C", "p", "u", "P", "e", "r", "c", "e", "n", "t", "a", "g", "e">>,
      <<"M", "e", "m", "o", "r", "y", "P", "e", "r", "c", "e", "n", "t", "a", "g", "e">>,
      <<"D", "i", "s", "k", "Q", "u", "e", "u", "e", "L", "e", "n", "g", "t", "h">>,
      <<"H", "t", "t", "p", "Q", "u", "e", "u", "e", "L", "e", "n", "g", "t", "h">>,
      <<"B", "y", "t", "e", "s", "R", "e", "c", "e", "i", "v", "e", "d">>,
      <<"B", "y", "t", "e", "s", "S", "e", "n", "t">>,
      <<"T", "c", "p", "S", "y", "n", "S", "e", "n", "t">>,
      <<"T", "c", "p", "S", "y", "n", "R", "e", "c", "e", "i", "v", "e", "d">>,
      <<"T", "c", "p", "E", "s", "t", "a", "b", "l", "i", "s", "h", "e", "d">>,
      <<"T", "c", "p", "F", "i", "n", "W", "a", "i", "t", "1">>,
      <<"T", "c", "p", "F", "i", "n", "W", "a", "i", "t", "2">>,
      <<"T", "c", "p", "C", "l", "o", "s", "i", "n", "g">>,
      <<"T", "c", "p", "C", "l", "o", "s", "e", "W", "a", "i", "t">>,
      <<"T", "c", "p", "L", "a", "s", "t", "A", "c", "k">>,
      <<"T", "c", "p", "T", "i", "m", "e", "W", "a", "i", "t">>,
      <<"S", "o", "c", "k", "e", "t", "I", "n", "b", "o", "u", "n", "d", "A", "l", "l">>,
      <<"S", "o", "c", "k", "e", "t", "O", "u", "t", "b", "o", "u", "n", "d", "A", "l", "l">>,
      <<"S", "o", "c", "k", "e", "t", "O", "u", "t", "b", "o", "u", "n", "d", "E", "s", "t", "a", "b", "l", "i", "s", "h", "e", "d">>,
      <<"S", "o", "c", "k", "e", "t", "O", "u", "t", "b", "o", "u", "n", "d", "T", "i", "m", "e", "W", "a", "i", "t">>,
      <<"S", "o", "c", "k", "e", "t", "L", "o", "o", "p", "b", "a", "c", "k">>>>

WordChars ==
    {"a", "b", "c", "d", "e", "f", "g", "h", "i", "j", "k", "l", "m",
     "n", "o", "p", "q", "r", "s", "t", "u", "v", "w", "x", "y", "z",
     "A", "B", "C", "D", "E", "F", "G", "H", "I", "J", "K", "L", "M",
     "N", "O", "P", "Q", "R", "S", "T", "U", "V", "W", "X", "Y", "Z",
     "0", "1", "2", "3", "4", "5", "6", "7", "8", "9", "_"}

\* re.sub(r"[^a-zA-Z0-9_]", "_", name)
sanitize_metric_name(name) ==
    [i \in DOMAIN name |-> IF name[i] \in WordChars THEN name[i] ELSE "_"]

\* f"{resource_group_name}_{sanitized_plan_name}"
PlanKey(resource_group_name, sanitized_plan_name) ==
    resource_group_name \o <<"_">> \o sanitized_plan_name

\* f"{key}_{metric.lower()}"
MetricKey(key, metric) == key \o <<"_">> \o StrLower(metric)

PlanEntry(rg) ==
    [tenant_id |-> "t1", client_id |-> "c1", client_secret |-> "s1",
     subscription_id |-> "sub", resource_group_name |-> rg]

PlanConfigFiles ==
    {MissingFile, NotJsonFile, JsonFile(<<>>),
     JsonFile(<<PlanEntry(<<"r", "g", "-", "1">>)>>),
     JsonFile(<<PlanEntry(<<"r", "g", "-", "1">>), PlanEntry(<<"r", "g", "2">>)>>),
     JsonFile(<<PlanEntry(<<"r", "g", "-", "1">>), PlanEntry(<<"r", "g", "_", "1">>)>>)}

\* load_config: open() raises FileNotFoundError and json.load raises
\* JSONDecodeError; neither is caught.
load_config(file) ==
    IF file.kind = "missing" THEN Raise("FileNotFoundError")
    ELSE IF file.kind = "not_json" THEN Raise("JSONDecodeError")
    ELSE Return(file.json)

\* What requests.post / requests.get yield: a response, or a
\* RequestException raised by the call.
PlanTokenReplies ==
    {Response(200, [access_token |-> "tokenA"]), Response(401, NoBody), ClientError}

PlanA == <<"A">>
PlanB1 == <<"B", "-", "1">>
PlanB_1 == <<"B", "_", "1">>

PlanList(names) == [value |-> [i \in DOMAIN names |-> [name |-> names[i]]]]

PlanListReplies ==
    {Response(200, PlanList(<<PlanA>>)),
     Response(200, PlanList(<<PlanA, PlanB1>>)),
     Response(200, PlanList(<<PlanB1, PlanB_1>>)),
     Response(200, PlanList(<<>>)),
     Response(403, NoBody),
     ClientError}

PlanMetric(name, samples) ==
    [name |-> [value |-> name], timeseries |-> <<[data |-> samples]>>]

CpuAverage20 ==
    [value |-> <<PlanMetric(<<"C", "p", "u", "P", "e", "r", "c", "e", "n", "t", "a", "g", "e">>,
                            <<Sample("average", Num(10)), Sample("average", Num(20))>>)>>]

MemoryAverage30 ==
    [value |-> <<PlanMetric(<<"M", "e", "m", "o", "r", "y", "P", "e", "r", "c", "e", "n", "t", "a", "g", "e">>,
                            <<Sample("average", Num(30)), Sample("total", Num(5))>>),
                 PlanMetric(<<"O", "t", "h", "e", "r">>, <<Sample("average", Num(1))>>)>>]

PlanMetricsReplies ==
    {Response(200, CpuAverage20),
     Response(200, MemoryAverage30),
     Response(200, NoValueResponse),
     Response(500, NoBody),
     ClientError}

\* response.raise_for_status() raises HTTPError, a RequestException, for a
\* status from 400 on.
RequestFailed(reply) ==
    reply.kind = "exception" \/ reply.status >= 400

\* get_access_token of the plan exporter: the token, or None (held as "")
\* on a RequestException.  A body without access_token raises KeyError,
\* which is not caught.
plan_get_access_token(reply) ==
    IF RequestFailed(reply) THEN Return("")
    ELSE IF "access_token" \in DOMAIN reply.json
         THEN Return(reply.json.access_token)
         ELSE Raise("KeyError")

\* get_app_service_plans: the names of the listed plans, or [] on a
\* RequestException.
get_app_service_plans(reply) ==
    IF RequestFailed(reply) THEN Return(<<>>)
    ELSE LET plans == Get(reply.json, "value", <<>>) IN
         IF \E i \in DOMAIN plans : "name" \notin DOMAIN plans[i]
         THEN Raise("KeyError")
         ELSE Return([i \in DOMAIN plans |-> plans[i].name])

\* get_plan_metrics: the JSON body, or None on a RequestException.
get_plan_metrics(reply) ==
    IF RequestFailed(reply) THEN None ELSE reply.json

\* initialize_metrics, lines 107-116, from plan p on: a Gauge per plan and
\* metric, created with value 0.  Gauge() raises ValueError when a gauge of
\* that name is registered already.
RECURSIVE RegisterGauges(_, _, _, _)
RegisterGauges(M, resource_group_name, plan_names, p) ==
    IF p > Len(plan_names)
    THEN Return(M)
    ELSE LET key == PlanKey(resource_group_name, sanitize_metric_name(plan_names[p]))
             keys == {MetricKey(key, METRIC_NAMES[m]) : m \in DOMAIN METRIC_NAMES}
         IN IF keys \cap DOMAIN M # {}
            THEN Raise("ValueError")
            ELSE RegisterGauges([k \in DOMAIN M \cup keys |->
                                    IF k \in DOMAIN M THEN M[k] ELSE Num(0)],
                                resource_group_name, plan_names, p + 1)

\* A data point that makes a gauge for its key when there is none.
SetOrCreate(M, metric_key, points, d) ==
    Return([k \in DOMAIN M \cup {metric_key} |-> Num(1)])

\* update_metrics, lines 151-153: every data point with an average sets the
\* gauge of metric_key, if there is one; set() raises TypeError on None.
RECURSIVE SetFromData(_, _, _, _)
SetFromData(M, metric_key, points, d) ==
    IF d > Len(points)
    THEN Return(M)
    ELSE IF "average" \in DOMAIN points[d] /\ metric_key \in DOMAIN M
         THEN IF IsNumber(points[d].average)
              THEN SetFromData([M EXCEPT ![metric_key] = points[d].average],
                               metric_key, points, d + 1)
              ELSE Raise("TypeError")
         ELSE SetFromData(M, metric_key, points, d + 1)

\* Line 150: the series of one metric, in order.
RECURSIVE SetFromSeries(_, _, _, _)
SetFromSeries(M, metric_key, series, j) ==
    IF j > Len(series)
    THEN Return(M)
    ELSE IF "data" \notin DOMAIN series[j]
         THEN Raise("KeyError")
         ELSE LET done == SetFromData(M, metric_key, series[j].data, 1) IN
              IF done.kind = "raise" THEN done
              ELSE SetFromSeries(done.val, metric_key, series, j + 1)

\* Lines 146-153: the metrics of one response, in order.
RECURSIVE SetFromMetrics(_, _, _, _)
SetFromMetrics(M, key, metrics, i) ==
    IF i > Len(metrics)
    THEN Return(M)
    ELSE IF "name" \notin DOMAIN metrics[i] \/ "timeseries" \notin DOMAIN metrics[i]
         THEN Raise("KeyError")
         ELSE LET done == SetFromSeries(M, MetricKey(key, metrics[i].name.value),
                                        metrics[i].timeseries, 1) IN
              IF done.kind = "raise" THEN done
              ELSE SetFromMetrics(done.val, key, metrics, i + 1)

\* Lines 140-153 for one plan, given the reply to its metrics request.
UpdatePlan(M, key, reply) ==
    LET metrics_data == get_plan_metrics(reply) IN
    IF metrics_data = None THEN Return(M)
    ELSE IF "value" \notin DOMAIN metrics_data THEN Raise("KeyError")
    ELSE SetFromMetrics(M, key, metrics_data.value, 1)

\* The metric keys for which a handled metrics reply carries an average.
AveragedKeys(key, reply) ==
    LET metrics_data == get_plan_metrics(reply) IN
    IF metrics_data = None THEN {}
    ELSE {MetricKey(key, metrics_data.value[i].name.value) :
             i \in {i \in DOMAIN metrics_data.value :
                       \E j \in DOMAIN metrics_data.value[i].timeseries :
                          \E d \in DOMAIN metrics_data.value[i].timeseries[j].data :
                             "average" \in DOMAIN metrics_data.value[i].timeseries[j].data[d]}}

RequestPcs == {"token_request", "plans_request", "metrics_request"}

\* The program at the head of the loop over the entries, in
\* initialize_metrics or in update_metrics: the token request of entry e
\* goes out, or the loop is over.  After initialize_metrics the program
\* starts the HTTP server and enters its while loop; after update_metrics it
\* sleeps.
AtEntry(phase, e, cfg) ==
    [pc |-> IF e <= Len(cfg) THEN "token_request"
            ELSE IF phase = "initialize" THEN "loop" ELSE "sleep",
     phase |-> phase, e |-> e, p |-> 0, access_token |-> "", plan_names |-> <<>>]

Crashed(m) == [m EXCEPT !.pc = "crashed"]

InitPlan ==
    /\ CONFIG_FILE \in PlanConfigFiles
    /\ config = <<>>
    /\ METRICS = [k \in {} |-> Num(0)]
    /\ main = [pc |-> "load", phase |-> "none", e |-> 0, p |-> 0,
               access_token |-> "", plan_names |-> <<>>]
    /\ plan_cycles = 0
    /\ offered = {}
    /\ ExporterConstructed(<<>>)
    /\ NormalizerIdle
    /\ SupervisorOff
    /\ PlanMetricsOff
    /\ SkuExporterOff
    /\ CopyExporterOff

\* __main__, lines 156-157: the configuration is loaded and
\* initialize_metrics goes to its first entry.
LoadConfig ==
    /\ main.pc = "load"
    /\ LET loaded == load_config(CONFIG_FILE) IN
       IF loaded.kind = "raise"
       THEN /\ main' = Crashed(main)
            /\ config' = config
       ELSE /\ main' = AtEntry("initialize", 1, loaded.val)
            /\ config' = loaded.val
    /\ UNCHANGED <<CONFIG_FILE, METRICS, plan_cycles, offered>>

\* Lines 96-102 and 127-132: the token request returns.
TokenReturns ==
    /\ main.pc = "token_request"
    /\ \E reply \in PlanTokenReplies :
          LET access_token == plan_get_access_token(reply) IN
          main' = IF access_token.kind = "raise" THEN Crashed(main)
                  ELSE IF access_token.val = ""
                       THEN AtEntry(main.phase, main.e + 1, config)
                       ELSE [main EXCEPT !.pc = "plans_request",
                                         !.access_token = access_token.val]
    /\ UNCHANGED <<CONFIG_FILE, config, METRICS, plan_cycles, offered>>

\* Lines 102-116 and 132-140: the plan listing returns.  initialize_metrics
\* registers the gauges of the listed plans; update_metrics requests the
\* metrics of the first of them.
PlansReturns ==
    /\ main.pc = "plans_request"
    /\ \E reply \in PlanListReplies :
          LET plan_names == get_app_service_plans(reply)
              resource_group_name ==
                  sanitize_metric_name(config[main.e].resource_group_name)
          IN IF plan_names.kind = "raise"
             THEN main' = Crashed(main) /\ METRICS' = METRICS
             ELSE IF plan_names.val = <<>>
             THEN /\ main' = AtEntry(main.phase, main.e + 1, config)
                  /\ METRICS' = METRICS
             ELSE IF main.phase = "initialize"
             THEN LET registered == RegisterGauges(METRICS, resource_group_name,
                                                   plan_names.val, 1) IN
                  IF registered.kind = "raise"
                  THEN main' = Crashed(main) /\ METRICS' = METRICS
                  ELSE /\ main' = AtEntry("initialize", main.e + 1, config)
                       /\ METRICS' = registered.val
             ELSE /\ main' = [main EXCEPT !.pc = "metrics_request", !.p = 1,
                                          !.plan_names = plan_names.val]
                  /\ METRICS' = METRICS
    /\ UNCHANGED <<CONFIG_FILE, config, plan_cycles, offered>>

\* Lines 140-153: the metrics request of plan p returns; the gauges are
\* set, and the request of the next plan goes out or update_metrics turns
\* to the next entry.
MetricsReturns ==
    /\ main.pc = "metrics_request"
    /\ \E reply \in PlanMetricsReplies :
          LET resource_group_name ==
                  sanitize_metric_name(config[main.e].resource_group_name)
              key == PlanKey(resource_group_name,
                             sanitize_metric_name(main.plan_names[main.p]))
              done == UpdatePlan(METRICS, key, reply)
          IN IF done.kind = "raise"
             THEN main' = Crashed(main) /\ METRICS' = METRICS
                  /\ offered' = offered
             ELSE /\ METRICS' = done.val
                  /\ main' = IF main.p < Len(main.plan_names)
                             THEN [main EXCEPT !.p = @ + 1]
                             ELSE AtEntry("update", main.e + 1, config)
                  /\ offered' = offered \cup AveragedKeys(key, reply)
    /\ UNCHANGED <<CONFIG_FILE, config, plan_cycles>>

\* Lines 161-162: update_metrics is called and goes to its first entry.
BeginUpdate ==
    /\ main.pc = "loop"
    /\ plan_cycles < MaxPlanCycles
    /\ main' = AtEntry("update", 1, config)
    /\ plan_cycles' = plan_cycles + 1
    /\ UNCHANGED <<CONFIG_FILE, config, METRICS, offered>>

\* Line 163: time.sleep(60) is over.
PlanSleepElapses ==
    /\ main.pc = "sleep"
    /\ main' = [main EXCEPT !.pc = "loop"]
    /\ UNCHANGED <<CONFIG_FILE, config, METRICS, plan_cycles, offered>>

NextPlan ==
    \/ (LoadConfig /\ UNCHANGED <<gmv_vars, exporter_vars, sup_vars, pm_vars, sku_vars, copy_vars>>)
    \/ (TokenReturns /\ UNCHANGED <<gmv_vars, exporter_vars, sup_vars, pm_vars, sku_vars, copy_vars>>)
    \/ (PlansReturns /\ UNCHANGED <<gmv_vars, exporter_vars, sup_vars, pm_vars, sku_vars, copy_vars>>)
    \/ (MetricsReturns /\ UNCHANGED <<gmv_vars, exporter_vars, sup_vars, pm_vars, sku_vars, copy_vars>>)
    \/ (BeginUpdate /\ UNCHANGED <<gmv_vars, exporter_vars, sup_vars, pm_vars, sku_vars, copy_vars>>)
    \/ (PlanSleepElapses /\ UNCHANGED <<gmv_vars, exporter_vars, sup_vars, pm_vars, sku_vars, copy_vars>>)

SpecPlan == InitPlan /\ [][NextPlan]_vars

\* The program's own steps are taken when they can be; nothing makes a
\* remote service answer.
SpecPlanFair ==
    /\ InitPlan
    /\ [][NextPlan]_vars
    /\ WF_vars(LoadConfig /\ UNCHANGED <<gmv_vars, exporter_vars, sup_vars, pm_vars, sku_vars, copy_vars>>)
    /\ WF_vars(BeginUpdate /\ UNCHANGED <<gmv_vars, exporter_vars, sup_vars, pm_vars, sku_vars, copy_vars>>)
    /\ WF_vars(PlanSleepElapses /\ UNCHANGED <<gmv_vars, exporter_vars, sup_vars, pm_vars, sku_vars, copy_vars>>)

(***************************************************************************)
(* The plan worker, src/sav/plan_metrics.py: PlanMetrics.run hands one     *)
(* get_plan_specs coroutine per configured plan to asyncio.gather.         *)
(***************************************************************************)
PmConfig(rg, plans) ==
    [tenant_id |-> "t1", client_id |-> "c1", client_secret |-> "s1",
     subscription_id |-> "sub", resource_group_name |-> rg, plan_names |-> plans]

PmConfigFiles ==
    {MissingFile,
     NotJsonFile,
     JsonFile(<<PmConfig("G1", <<"PA">>)>>),
     JsonFile(<<PmConfig("G1", <<"PA", "PB">>)>>),
     JsonFile(<<PmConfig("G1", <<"PA", "PB">>), PmConfig("G2", <<"PB", "PC">>)>>)}

\* PlanMetrics.load_webapp_configs
pm_load_webapp_configs(file) ==
    IF file.kind \in {"missing", "not_json"} THEN <<>> ELSE file.json

PlanSpecsReplies ==
    {Response(200, [sku |-> [name |-> "P1v2"]]), Response(404, NoBody), ClientError}

\* Lines 57-60: the (configuration entry, plan) pairs in the order the
\* coroutines are appended.
RECURSIVE PlanPairs(_, _)
PlanPairs(cfgs, c) ==
    IF c > Len(cfgs) THEN <<>>
    ELSE [p \in DOMAIN cfgs[c].plan_names |->
             [config |-> cfgs[c], plan_name |-> cfgs[c].plan_names[p]]]
         \o PlanPairs(cfgs, c + 1)

SpecKey(gauge, rg, plan) ==
    [gauge |-> gauge, resource_group_name |-> rg, plan_name |-> plan]

\* get_plan_specs, lines 41-49: on 200 the three gauges of the plan are set.
OnSpecsReply(reg, reply, rg, plan) ==
    IF reply.kind = "response" /\ reply.status = 200
    THEN LET cpu == SpecKey("cpu_cores", rg, plan)
             mem == SpecKey("memory_gb", rg, plan)
             disk == SpecKey("disk_size_gb", rg, plan)
         IN GaugeSet(Labels(
                GaugeSet(Labels(
                    GaugeSet(Labels(reg, cpu), cpu, Num(2)),
                    mem), mem, Num(4)),
                disk), disk, Num(10))
    ELSE reg

\* What run does when gather has returned: nothing more, it returns.
AfterGather == "returned"

\* __init__
InitPlanMetrics ==
    /\ \E file \in PmConfigFiles : pm_web_app_configs = pm_load_webapp_configs(file)
    /\ pm_pc = "create_tasks"
    /\ pm_tasks = <<>>
    /\ plan_static_metrics = [k \in {} |-> Num(0)]
    /\ ExporterConstructed(<<>>)
    /\ NormalizerIdle
    /\ SupervisorOff
    /\ PlanExporterOff
    /\ SkuExporterOff
    /\ CopyExporterOff

\* run, lines 56-60
PmCreateTasks ==
    /\ pm_pc = "create_tasks"
    /\ pm_tasks' = [k \in DOMAIN PlanPairs(pm_web_app_configs, 1) |-> "created"]
    /\ pm_pc' = "gather"
    /\ UNCHANGED <<pm_web_app_configs, plan_static_metrics>>

\* get_plan_specs, lines 36-40: the request goes out.
PmStartTask(k) ==
    /\ pm_pc = "gather"
    /\ pm_tasks[k] = "created"
    /\ \A j \in 1..(k - 1) : pm_tasks[j] # "created"
    /\ pm_tasks' = [pm_tasks EXCEPT ![k] = "specs_request"]
    /\ UNCHANGED <<pm_web_app_configs, pm_pc, plan_static_metrics>>

\* get_plan_specs, lines 40-52: the request answers and the coroutine ends.
PmSpecsReply(k) ==
    /\ pm_pc = "gather"
    /\ pm_tasks[k] = "specs_request"
    /\ \E reply \in PlanSpecsReplies :
          LET pair == PlanPairs(pm_web_app_configs, 1)[k] IN
          plan_static_metrics' =
              OnSpecsReply(plan_static_metrics, reply,
                           pair.config.resource_group_name, pair.plan_name)
    /\ pm_tasks' = [pm_tasks EXCEPT ![k] = "returned"]
    /\ UNCHANGED <<pm_web_app_configs, pm_pc>>

\* run, lines 62-63: gather returns, the session is closed, run is over.
PmGatherDone ==
    /\ pm_pc = "gather"
    /\ \A k \in DOMAIN pm_tasks : pm_tasks[k] = "returned"
    /\ pm_pc' = AfterGather
    /\ UNCHANGED <<pm_web_app_configs, pm_tasks, plan_static_metrics>>

NextPlanMetrics ==
    \/ (PmCreateTasks /\ UNCHANGED <<gmv_vars, exporter_vars, sup_vars, plan_vars, sku_vars, copy_vars>>)
    \/ (\E k \in DOMAIN pm_tasks :
           PmStartTask(k) /\ UNCHANGED <<gmv_vars, exporter_vars, sup_vars, plan_vars, sku_vars, copy_vars>>)
    \/ (\E k \in DOMAIN pm_tasks :
           PmSpecsReply(k) /\ UNCHANGED <<gmv_vars, exporter_vars, sup_vars, plan_vars, sku_vars, copy_vars>>)
    \/ (PmGatherDone /\ UNCHANGED <<gmv_vars, exporter_vars, sup_vars, plan_vars, sku_vars, copy_vars>>)

SpecPlanMetrics == InitPlanMetrics /\ [][NextPlanMetrics]_vars

(***************************************************************************)
(* The SKU exporter, src/webapp_exporter_plan_21thazure.py: a Flask        *)
(* handler that on every scrape of /metrics reads the configuration, asks  *)
(* the API for each web app's plan and SKU, and sets five gauges.  One     *)
(* handler runs at a time.  SKU names are sequences of characters; an id   *)
(* is the sequence of its "/"-separated parts; memory is in 1/100 GB.      *)
(***************************************************************************)
MaxScrapes == 2

SkuRow(cpu, memory, storage) == [cpu |-> cpu, memory |-> memory, storage |-> storage]

SKU_CONFIG ==
    (<<"F", "1">> :> SkuRow(1, 100, 1)) @@
    (<<"D", "1">> :> SkuRow(1, 175, 10)) @@
    (<<"B", "1">> :> SkuRow(1, 175, 10)) @@
    (<<"B", "2">> :> SkuRow(2, 350, 10)) @@
    (<<"B", "3">> :> SkuRow(4, 700, 10)) @@
    (<<"S", "1">> :> SkuRow(1, 175, 50)) @@
    (<<"S", "2">> :> SkuRow(2, 350, 50)) @@
    (<<"S", "3">> :> SkuRow(4, 700, 50)) @@
    (<<"P", "1", "V", "2">> :> SkuRow(1, 350, 250)) @@
    (<<"P", "2", "V", "2">> :> SkuRow(2, 700, 250)) @@
    (<<"P", "3", "V", "2">> :> SkuRow(4, 1400, 250))

\* str.upper()
StrUpper(s) ==
    [i \in DOMAIN s |->
        IF \E u \in DOMAIN UpperToLower : UpperToLower[u] = s[i]
        THEN CHOOSE u \in DOMAIN UpperToLower : UpperToLower[u] = s[i]
        ELSE s[i]]

\* The placeholder "Unknown": as a name, and as an id split at "/".
Unknown == <<"U", "n", "k", "n", "o", "w", "n">>
UnknownId == <<"Unknown">>

\* What the configuration file can be when a scrape reads it.
SkuConfigFiles ==
    {MissingFile,
     JsonFile(<<Config("G1", <<"W1">>)>>),
     JsonFile(<<Config("G1", <<"W1", "W2">>)>>)}

\* json.load(open(CONFIG_FILE)), line 124: no exception is caught.
sku_load_config(file) ==
    IF file.kind = "missing" THEN Raise("FileNotFoundError")
    ELSE IF file.kind = "not_json" THEN Raise("JSONDecodeError")
    ELSE Return(file.json)

SkuTokenReplies ==
    {Response(200, [access_token |-> "tokenA"]),
     Response(200, [error |-> "invalid_client"]),
     Response(401, NoBody),
     ClientError}

\* "/subscriptions/sub/resourceGroups/G1/providers/Microsoft.Web/serverfarms/<plan>"
FarmId(plan) ==
    <<"", "subscriptions", "sub", "resourceGroups", "G1", "providers",
      "Microsoft.Web", "serverfarms", plan>>

WebAppInfoReplies ==
    {Response(200, [properties |-> [serverFarmId |-> FarmId("PlanA"),
                                    siteConfig |-> [numberOfWorkers |-> 2]]]),
     Response(200, [properties |-> [serverFarmId |-> FarmId("PlanB")]]),
     Response(200, [properties |-> [serverFarmId |-> FarmId("PlanA"),
                                    siteConfig |-> None]]),
     Response(200, [properties |-> [state |-> "Running"]]),
     Response(404, NoBody),
     ClientError}

SkuPlanReplies ==
    {Response(200, [sku |-> [name |-> <<"B", "1">>]]),
     Response(200, [sku |-> [name |-> <<"s", "1">>]]),
     Response(200, [name |-> "PlanA"]),
     Response(404, NoBody),
     ClientError}

\* get_access_token, lines 59-71: the token (None, held as "None", when the
\* body has none); requests.post and raise_for_status raise.
sku_get_access_token(reply) ==
    IF RequestFailed(reply) THEN Raise("RequestException")
    ELSE Return(Get(reply.json, "access_token", "None"))

\* get_web_app_info, lines 74-93: plan_id and instance_count.
get_web_app_info(reply) ==
    IF reply.kind = "exception" THEN Raise("RequestException")
    ELSE IF reply.status = 200
    THEN LET properties == Get(reply.json, "properties", NoBody)
             plan_id == Get(properties, "serverFarmId", UnknownId)
             siteConfig == Get(properties, "siteConfig", NoBody)
         IN IF siteConfig = None THEN Raise("AttributeError")
            ELSE Return([plan_id |-> plan_id,
                         instance_count |-> Get(siteConfig, "numberOfWorkers", 1)])
    ELSE Return([plan_id |-> UnknownId, instance_count |-> 1])

PlanMetricsOf(plan_name, sku, cpu, memory_gb, storage_gb) ==
    [plan_name |-> plan_name, sku |-> sku, cpu |-> cpu,
     memory_gb |-> memory_gb, storage_gb |-> storage_gb]

\* get_plan_metrics, lines 97-98: no request is made for an unknown plan.
UnknownPlanMetrics == PlanMetricsOf("Unknown", Unknown, 0, 0, 0)

\* get_plan_metrics, lines 100-117, given the reply to its request.
sku_get_plan_metrics(plan_id, reply) ==
    IF reply.kind = "exception" THEN Raise("RequestException")
    ELSE IF reply.status = 200
    THEN LET plan_name == Last(plan_id)
             sku_name == StrUpper(Get(Get(reply.json, "sku", NoBody), "name", Unknown))
             row == IF sku_name \in DOMAIN SKU_CONFIG THEN SKU_CONFIG[sku_name]
                    ELSE SkuRow(0, 0, 0)
         IN Return(PlanMetricsOf(plan_name, sku_name, row.cpu, row.memory, row.storage))
    ELSE Return(UnknownPlanMetrics)

SkuLabels(web_app, resource_group_name, subscription_id, sku, plan_name) ==
    [web_app_name |-> web_app, resource_group_name |-> resource_group_name,
     subscription_id |-> subscription_id, sku |-> sku, plan_name |-> plan_name]

PlanLabels(web_app, resource_group_name, subscription_id, plan_name) ==
    [web_app_name |-> web_app, resource_group_name |-> resource_group_name,
     subscription_id |-> subscription_id, plan_name |-> plan_name]

\* gauge.labels(...).set(value)
SetChild(gauge, labels, value) == GaugeSet(Labels(gauge, labels), labels, value)

\* The handler at the head of the loop over the entries: the token request
\* of entry e goes out, or the response is returned and the handler is over.
SkuAtEntry(cfg, e) ==
    [pc |-> IF e <= Len(cfg) THEN "token_request" ELSE "idle",
     config |-> cfg, e |-> e, w |-> 0, token |-> "",
     plan_id |-> <<>>, instance_count |-> 0]

\* The handler at web app w of its entry: the request of get_web_app_info
\* goes out, or the loop over the web apps is over.
SkuAtWebApp(sc, w) ==
    IF w <= Len(sc.config[sc.e].web_app_names)
    THEN [sc EXCEPT !.pc = "webapp_request", !.w = w, !.plan_id = <<>>,
                    !.instance_count = 0]
    ELSE SkuAtEntry(sc.config, sc.e + 1)

InitSku ==
    /\ sku_file \in SkuConfigFiles
    /\ scrape = SkuAtEntry(<<>>, 1)
    /\ scrapes = 0
    /\ web_app_sku_metric = [k \in {} |-> Num(0)]
    /\ web_app_instance_count_metric = [k \in {} |-> Num(0)]
    /\ web_app_cpu_metric = [k \in {} |-> Num(0)]
    /\ web_app_memory_metric = [k \in {} |-> Num(0)]
    /\ web_app_storage_metric = [k \in {} |-> Num(0)]
    /\ ExporterConstructed(<<>>)
    /\ NormalizerIdle
    /\ SupervisorOff
    /\ PlanExporterOff
    /\ PlanMetricsOff
    /\ CopyExporterOff

sku_gauges == <<web_app_sku_metric, web_app_instance_count_metric,
                web_app_cpu_metric, web_app_memory_metric, web_app_storage_metric>>

\* Lines 141-145 for the web app the handler is at, then on to the next.
SetPlanGauges(instance_count, m) ==
    LET entry == scrape.config[scrape.e]
        web_app == entry.web_app_names[scrape.w]
        labels == PlanLabels(web_app, entry.resource_group_name,
                             entry.subscription_id, m.plan_name)
    IN /\ web_app_sku_metric' =
              SetChild(web_app_sku_metric,
                       SkuLabels(web_app, entry.resource_group_name,
                                 entry.subscription_id, m.sku, m.plan_name),
                       Num(1))
       /\ web_app_instance_count_metric' =
              SetChild(web_app_instance_count_metric, labels, Num(instance_count))
       /\ web_app_cpu_metric' = SetChild(web_app_cpu_metric, labels, Num(m.cpu))
       /\ web_app_memory_metric' = SetChild(web_app_memory_metric, labels, Num(m.memory_gb))
       /\ web_app_storage_metric' = SetChild(web_app_storage_metric, labels, Num(m.storage_gb))
       /\ scrape' = SkuAtWebApp(scrape, scrape.w + 1)

\* Lines 123-135: a scrape arrives; the configuration is read and the token
\* request of the first entry goes out.  When the file cannot be read the
\* handler ends on the exception.
Scrape ==
    /\ scrape.pc = "idle"
    /\ scrapes < MaxScrapes
    /\ scrapes' = scrapes + 1
    /\ LET loaded == sku_load_config(sku_file) IN
       scrape' = IF loaded.kind = "raise" THEN scrape
                 ELSE SkuAtEntry(loaded.val, 1)
    /\ UNCHANGED <<sku_file, sku_gauges>>

\* Lines 135-138 and 147-148: the token request returns.
SkuTokenReturns ==
    /\ scrape.pc = "token_request"
    /\ \E reply \in SkuTokenReplies :
          LET token == sku_get_access_token(reply) IN
          scrape' = IF token.kind = "raise"
                    THEN SkuAtEntry(scrape.config, scrape.e + 1)
                    ELSE SkuAtWebApp([scrape EXCEPT !.token = token.val], 1)
    /\ UNCHANGED <<sku_file, scrapes, sku_gauges>>

\* Lines 138-145: the request of get_web_app_info returns.  For a known
\* plan the request of get_plan_metrics goes out; for an unknown one the
\* gauges are set at once.
WebAppInfoReturns ==
    /\ scrape.pc = "webapp_request"
    /\ \E reply \in WebAppInfoReplies :
          LET info == get_web_app_info(reply) IN
          IF info.kind = "raise"
          THEN /\ scrape' = SkuAtEntry(scrape.config, scrape.e + 1)
               /\ UNCHANGED sku_gauges
          ELSE IF info.val.plan_id = UnknownId
          THEN SetPlanGauges(info.val.instance_count, UnknownPlanMetrics)
          ELSE /\ scrape' = [scrape EXCEPT !.pc = "plan_request",
                                           !.plan_id = info.val.plan_id,
                                           !.instance_count = info.val.instance_count]
               /\ UNCHANGED sku_gauges
    /\ UNCHANGED <<sku_file, scrapes>>

\* Lines 106-117 and 139-145: the request of get_plan_metrics returns and
\* the gauges of the web app are set.
SkuPlanReturns ==
    /\ scrape.pc = "plan_request"
    /\ \E reply \in SkuPlanReplies :
          LET m == sku_get_plan_metrics(scrape.plan_id, reply) IN
          IF m.kind = "raise"
          THEN /\ scrape' = SkuAtEntry(scrape.config, scrape.e + 1)
               /\ UNCHANGED sku_gauges
          ELSE SetPlanGauges(scrape.instance_count, m.val)
    /\ UNCHANGED <<sku_file, scrapes>>

NextSku ==
    \/ (Scrape /\ UNCHANGED <<gmv_vars, exporter_vars, sup_vars, plan_vars, pm_vars, copy_vars>>)
    \/ (SkuTokenReturns /\ UNCHANGED <<gmv_vars, exporter_vars, sup_vars, plan_vars, pm_vars, copy_vars>>)
    \/ (WebAppInfoReturns /\ UNCHANGED <<gmv_vars, exporter_vars, sup_vars, plan_vars, pm_vars, copy_vars>>)
    \/ (SkuPlanReturns /\ UNCHANGED <<gmv_vars, exporter_vars, sup_vars, plan_vars, pm_vars, copy_vars>>)

SpecSku == InitSku /\ [][NextSku]_vars

(***************************************************************************)
(* The variant that commits after gathering,                               *)
(* src/sav/webapp_exporter_azure_副本.py: get_azure_metrics returns the     *)
(* values of its web apps and update_metrics sets the gauges from the      *)
(* gathered results.  Its gauges have no plan_name label.                  *)
(***************************************************************************)
MaxCopyCycles == 1

CopyConfigFiles ==
    {MissingFile,
     JsonFile(<<Config("G1", <<"W1">>)>>),
     JsonFile(<<Config("G1", <<"W1">>), Config("G2", <<"W2">>)>>)}

CopyMetricsReplies(interval) ==
    {Response(200, d) : d \in ApiData[interval]} \cup {Response(429, NoBody)}

CopyKey(metric, rg, app) ==
    [metric |-> metric, resource_group_name |-> rg, web_app_name |-> app]

CopyTaskIds == 1..(Len(copy_web_app_configs) * NIntervals)
CopyTaskConfig(k) == copy_web_app_configs[ConfigOf(k)]

CopyNewTask == [pc |-> "created", access_token |-> "", i |-> 0, metrics |-> <<>>]

\* Lines 92-94: {metric: self.get_metric_value(metric, data) for metric in
\* metric_names}, in the order of the names.
AppMetrics(names, d) ==
    [j \in DOMAIN names |->
        [metric_name |-> names[j], value |-> get_metric_value(names[j], d)]]

\* Lines 89-98: metrics after the reply for web_app_name.
AddAppMetrics(metrics, web_app_name, names, reply) ==
    IF reply.kind = "response" /\ reply.status = 200
    THEN Append(metrics, [web_app_name |-> web_app_name,
                          app_metrics |-> AppMetrics(names, reply.json)])
    ELSE metrics

\* Results in the order in which the coroutines returned.
InCompletionOrder(ts, order) == [n \in DOMAIN order |-> ts[order[n]].metrics]

\* asyncio.gather, line 136: the results in the order of the awaitables
\* passed, whatever the order in which they completed.
Gather(ts, order) == [k \in DOMAIN ts |-> ts[k].metrics]

\* Lines 145-149 for one gathered result: the set() calls it makes, in
\* order.
RECURSIVE ResultWrites(_, _, _)
ResultWrites(resource_group_name, metrics, a) ==
    IF a > Len(metrics) THEN <<>>
    ELSE [j \in DOMAIN metrics[a].app_metrics |->
             [key |-> CopyKey(metrics[a].app_metrics[j].metric_name,
                              resource_group_name, metrics[a].web_app_name),
              value |-> metrics[a].app_metrics[j].value]]
         \o ResultWrites(resource_group_name, metrics, a + 1)

\* Lines 138-149: result_index runs over the configuration entries and the
\* intervals, in the order in which the tasks were created.
RECURSIVE AllWrites(_, _, _)
AllWrites(cfgs, metrics_results, result_index) ==
    IF result_index > Len(metrics_results) THEN <<>>
    ELSE ResultWrites(cfgs[ConfigOf(result_index)].resource_group_name,
                      metrics_results[result_index], 1)
         \o AllWrites(cfgs, metrics_results, result_index + 1)

\* labels(...).set(value) for each write in turn; set() raises TypeError on
\* None, after labels() has made the child.
RECURSIVE ApplyWrites(_, _, _)
ApplyWrites(reg, writes, n) ==
    IF n > Len(writes) THEN [registry |-> reg, raised |-> FALSE]
    ELSE LET child == Labels(reg, writes[n].key) IN
         IF IsNumber(writes[n].value)
         THEN ApplyWrites(GaugeSet(child, writes[n].key, writes[n].value), writes, n + 1)
         ELSE [registry |-> child, raised |-> TRUE]

\* What a sequence has computed for its configuration entry.
Produced(k, web_app_name, app_metrics) ==
    {[resource_group_name |-> CopyTaskConfig(k).resource_group_name,
      web_app_name |-> web_app_name,
      metric_name |-> app_metrics[j].metric_name,
      value |-> app_metrics[j].value] : j \in DOMAIN app_metrics}

InitCopy ==
    /\ \E file \in CopyConfigFiles : copy_web_app_configs = load_webapp_configs(file)
    /\ copy_loop_pc = "create_tasks"
    /\ copy_tasks = <<>>
    /\ copy_order = <<>>
    /\ copy_registry = [k \in {} |-> Num(0)]
    /\ copy_cycle = 0
    /\ copy_produced = {}
    /\ ExporterConstructed(<<>>)
    /\ NormalizerIdle
    /\ SupervisorOff
    /\ PlanExporterOff
    /\ PlanMetricsOff
    /\ SkuExporterOff

\* update_metrics, lines 130-136: a coroutine per configuration entry and
\* interval, handed to asyncio.gather.
CopyCreateTasks ==
    /\ copy_loop_pc = "create_tasks"
    /\ copy_cycle < MaxCopyCycles
    /\ copy_tasks' = [k \in CopyTaskIds |-> CopyNewTask]
    /\ copy_order' = <<>>
    /\ copy_cycle' = copy_cycle + 1
    /\ copy_loop_pc' = "gather"
    /\ UNCHANGED <<copy_web_app_configs, copy_registry, copy_produced>>

\* get_azure_metrics, lines 59-88: the token, then the request of the first
\* web app; without a token the coroutine returns {}.
CopyStartTask(k) ==
    /\ copy_loop_pc = "gather"
    /\ copy_tasks[k].pc = "created"
    /\ \A j \in 1..(k - 1) : copy_tasks[j].pc # "created"
    /\ \E reply \in TokenReplies :
          LET access_token == get_access_token(reply)
              returns == access_token = "" \/ CopyTaskConfig(k).web_app_names = <<>>
          IN /\ copy_tasks' = [copy_tasks EXCEPT ![k] =
                    IF returns
                    THEN [@ EXCEPT !.pc = "returned", !.access_token = access_token]
                    ELSE [@ EXCEPT !.pc = "metrics_request", !.i = 1,
                                   !.access_token = access_token]]
             /\ copy_order' = IF returns THEN Append(copy_order, k) ELSE copy_order
    /\ UNCHANGED <<copy_web_app_configs, copy_loop_pc, copy_registry, copy_cycle,
                   copy_produced>>

\* Lines 88-101: the metrics request answers; on 200 the values of the web
\* app are kept; then the pacing sleep starts.
CopyMetricsReply(k) ==
    /\ copy_loop_pc = "gather"
    /\ copy_tasks[k].pc = "metrics_request"
    /\ \E reply \in CopyMetricsReplies(IntervalOf(k)) :
          LET web_app_name == CopyTaskConfig(k).web_app_names[copy_tasks[k].i]
              metrics == AddAppMetrics(copy_tasks[k].metrics, web_app_name,
                                       metric_groups[IntervalOf(k)], reply)
          IN /\ copy_tasks' = [copy_tasks EXCEPT ![k] =
                    [@ EXCEPT !.pc = "sleep", !.metrics = metrics]]
             /\ copy_produced' =
                    IF Len(metrics) > Len(copy_tasks[k].metrics)
                    THEN copy_produced \cup
                         Produced(k, web_app_name, Last(metrics).app_metrics)
                    ELSE copy_produced
    /\ UNCHANGED <<copy_web_app_configs, copy_loop_pc, copy_order, copy_registry,
                   copy_cycle>>

\* Lines 101, 78 and 103: the pacing sleep is over; the request of the next
\* web app goes out, or the coroutine returns its metrics.
CopyWakeTask(k) ==
    /\ copy_loop_pc = "gather"
    /\ copy_tasks[k].pc = "sleep"
    /\ LET more == copy_tasks[k].i < Len(CopyTaskConfig(k).web_app_names) IN
       /\ copy_tasks' = [copy_tasks EXCEPT ![k] =
              IF more THEN [@ EXCEPT !.pc = "metrics_request", !.i = @ + 1]
              ELSE [@ EXCEPT !.pc = "returned"]]
       /\ copy_order' = IF more THEN copy_order ELSE Append(copy_order, k)
    /\ UNCHANGED <<copy_web_app_configs, copy_loop_pc, copy_registry, copy_cycle,
                   copy_produced>>

\* Lines 136-152: gather returns when every coroutine has; the results are
\* committed, and update_metrics sleeps.  A TypeError of set() ends
\* update_metrics.
CopyGatherDone ==
    /\ copy_loop_pc = "gather"
    /\ \A k \in CopyTaskIds : copy_tasks[k].pc = "returned"
    /\ LET metrics_results == Gather(copy_tasks, copy_order)
           done == ApplyWrites(copy_registry,
                               AllWrites(copy_web_app_configs, metrics_results, 1), 1)
       IN /\ copy_registry' = done.registry
          /\ copy_loop_pc' = IF done.raised THEN "crashed" ELSE "sleep"
    /\ UNCHANGED <<copy_web_app_configs, copy_tasks, copy_order, copy_cycle,
                   copy_produced>>

\* Line 152 to line 129: the sleep is over, the loop goes round.
CopyWakeLoop ==
    /\ copy_loop_pc = "sleep"
    /\ copy_loop_pc' = "create_tasks"
    /\ UNCHANGED <<copy_web_app_configs, copy_tasks, copy_order, copy_registry,
                   copy_cycle, copy_produced>>

NextCopy ==
    \/ (CopyCreateTasks /\ UNCHANGED <<gmv_vars, exporter_vars, sup_vars, plan_vars, pm_vars, sku_vars>>)
    \/ (\E k \in CopyTaskIds :
           CopyStartTask(k) /\ UNCHANGED <<gmv_vars, exporter_vars, sup_vars, plan_vars, pm_vars, sku_vars>>)
    \/ (\E k \in CopyTaskIds :
           CopyMetricsReply(k) /\ UNCHANGED <<gmv_vars, exporter_vars, sup_vars, plan_vars, pm_vars, sku_vars>>)
    \/ (\E k \in CopyTaskIds :
           CopyWakeTask(k) /\ UNCHANGED <<gmv_vars, exporter_vars, sup_vars, plan_vars, pm_vars, sku_vars>>)
    \/ (CopyGatherDone /\ UNCHANGED <<gmv_vars, exporter_vars, sup_vars, plan_vars, pm_vars, sku_vars>>)
    \/ (CopyWakeLoop /\ UNCHANGED <<gmv_vars, exporter_vars, sup_vars, plan_vars, pm_vars, sku_vars>>)

SpecCopy == InitCopy /\ [][NextCopy]_vars

(***************************************************************************)
(* Reading a response the way the contract describes it.                   *)
(***************************************************************************)
Entries(d) == Get(d, "value", <<>>)

AllNamed(d) == \A i \in DOMAIN Entries(d) : "name" \in DOMAIN Entries(d)[i]

Matches(e, name) == "name" \in DOMAIN e /\ Lower(e.name.value) = Lower(name)

\* The samples of the first time-series of an entry (none when there is no
\* time-series or no data).
FirstSeriesSamples(e) ==
    IF "timeseries" \in DOMAIN e /\ e.timeseries # <<>>
       /\ "data" \in DOMAIN e.timeseries[1]
    THEN e.timeseries[1].data
    ELSE <<>>

EntriesWithSamples(name, d) ==
    {i \in DOMAIN Entries(d) :
        Matches(Entries(d)[i], name) /\ FirstSeriesSamples(Entries(d)[i]) # <<>>}

Min(S) == CHOOSE x \in S : \A y \in S : x <= y

\* total, then average, then maximum, then sum, then 0.
ByFallbackOrder(s) ==
    IF "total" \in DOMAIN s THEN s.total
    ELSE IF "average" \in DOMAIN s THEN s.average
    ELSE IF "maximum" \in DOMAIN s THEN s.maximum
    ELSE IF "sum" \in DOMAIN s THEN s.sum
    ELSE Num(0)

\* C1: when every entry of the response has a name and the requested metric
\* has an entry (name matched case-insensitively) whose first time-series
\* has samples, get_metric_value returns the field of the LAST sample of the
\* FIRST time-series of the first such entry, picked in the order total,
\* average, maximum, sum, 0.
C1_FallbackFromLastSample ==
    (gmv_pc = "returned" /\ AllNamed(data)
        /\ EntriesWithSamples(metric_name, data) # {})
    => LET e == Entries(data)[Min(EntriesWithSamples(metric_name, data))]
           samples == e.timeseries[1].data
       IN latest_value = Return(ByFallbackOrder(samples[Len(samples)]))

\* Reached: two samples and two time-series, the last sample of the first
\* series has no total and an average, an earlier sample has a total.
C1_Witness ==
    /\ gmv_pc = "returned"
    /\ AllNamed(data)
    /\ EntriesWithSamples(metric_name, data) # {}
    /\ LET e == Entries(data)[Min(EntriesWithSamples(metric_name, data))]
           samples == e.timeseries[1].data
       IN /\ Len(samples) = 2
          /\ Len(e.timeseries) = 2
          /\ "total" \in DOMAIN samples[1]
          /\ "total" \notin DOMAIN samples[2]
          /\ "average" \in DOMAIN samples[2]
          /\ e.name.value # metric_name
          /\ latest_value = Return(Num(42))

\* C2: get_metric_value returns 0 and raises nothing when no entry of the
\* response has the requested name, or when the entries of that name have
\* an empty time-series list or a first time-series without samples.
C2_ZeroWhenNoData ==
    (gmv_pc = "returned" /\ EntriesWithSamples(metric_name, data) = {}
        /\ (AllNamed(data)
            \/ \A i \in DOMAIN Entries(data) :
                  ~Matches(Entries(data)[i], metric_name)))
    => latest_value = Return(Num(0))

\* Reached: the name is present with an empty sample sequence.
C2_Witness ==
    /\ gmv_pc = "returned"
    /\ \E i \in DOMAIN Entries(data) :
          /\ Matches(Entries(data)[i], metric_name)
          /\ "timeseries" \in DOMAIN Entries(data)[i]
          /\ Entries(data)[i].timeseries # <<>>
          /\ Entries(data)[i].timeseries[1] = [data |-> <<>>]
    /\ EntriesWithSamples(metric_name, data) = {}
    /\ latest_value = Return(Num(0))

(***************************************************************************)
(* Properties of the collection cycle (Spec).                              *)
(***************************************************************************)
Started(k) == k \in DOMAIN tasks /\ tasks[k].pc # "created"

GroupKeys(k, app) ==
    {Key(metric_groups[IntervalOf(k)][j], TaskConfig(k).resource_group_name,
         app, plan) :
        j \in DOMAIN metric_groups[IntervalOf(k)],
        plan \in {"PlanA", "unknown_plan", ""}}

SameEntry(reg1, reg2, key) ==
    /\ (key \in DOMAIN reg1) = (key \in DOMAIN reg2)
    /\ key \in DOMAIN reg1 => reg1[key] = reg2[key]

\* C3: the sequences of one cycle that ask for a token of the same identity
\* cause exactly one token exchange and all hold the same result.
C3_SingleTokenExchange ==
    /\ token_calls <= 1
    /\ \A j, k \in DOMAIN tasks :
          (Started(j) /\ Started(k) /\ Identity(TaskConfig(j)) = Identity(TaskConfig(k)))
          => tasks[j].access_token = tasks[k].access_token

\* C4: a failed fetch stops nothing else.  A sequence that got its token
\* has gone through every web app of its entry when it returns, whatever
\* failed on the way; a web app whose request returned 200 with numeric
\* values has its gauges set; and a web app that failed in the cycle
\* before is requested again once its sequence has its token.
C4_FailureIsolated ==
    /\ \A k \in DOMAIN tasks :
          (tasks[k].pc = "returned" /\ tasks[k].access_token # "")
          => tasks[k].i = Len(AppsOf(k))
    /\ \A k \in DOMAIN tasks :
          (tasks[k].pc = "sleep" /\ fetch[k].status = "ok")
          => \A j \in DOMAIN metric_groups[IntervalOf(k)] :
                LET m == metric_groups[IntervalOf(k)][j]
                    key == Key(m, TaskConfig(k).resource_group_name,
                               AppsOf(k)[tasks[k].i], tasks[k].plan_name)
                IN key \in DOMAIN registry
                   /\ registry[key] = get_metric_value(m, fetch[k].data)
    /\ \A f \in failed_earlier :
          (loop_pc = "sleep" /\ tasks[f[1]].access_token # "")
          => tasks[f[1]].i >= f[2]

\* Reached: in one cycle the first web app of a sequence failed and the
\* second one has its gauges set from a 200 reply.
C4_Witness ==
    \E k \in DOMAIN tasks :
        /\ <<k, 1>> \in failed_now
        /\ tasks[k].i = 2
        /\ tasks[k].pc = "sleep"
        /\ fetch[k].status = "ok"
        /\ Key("Requests", "G1", "W2", tasks[k].plan_name) \in DOMAIN registry
        /\ \A key \in DOMAIN registry : key.web_app_name # "W1"

\* C5: in a cycle in which the fetch of a web app failed (non-success
\* status, exception, or no token), no step changes, creates or removes a
\* registry entry of that web app for the metrics of the failed request.
C5_FailureKeepsEntries ==
    [][\A f \in failed_now' :
          \A key \in GroupKeys(f[1], AppsOf(f[1])[f[2]]) :
              SameEntry(registry, registry', key)]_vars

\* Reached: the request failed with HTTP 429 in the second cycle and the
\* entry still holds the 42 written in the first.
C5_Witness ==
    /\ cycle = 2
    /\ \E k \in DOMAIN tasks :
          /\ <<k, 1>> \in failed_now
          /\ fetch[k].status = "http_error"
          /\ \E plan \in {"PlanA", "unknown_plan"} :
                /\ Key("Requests", "G1", "W1", plan) \in DOMAIN registry
                /\ registry[Key("Requests", "G1", "W1", plan)] = Num(42)

PlanFailed(f) == f.plan \in {"http_error", "exception", "no_plan"}

\* C6: when the plan lookup of a web app fails, its metrics request has
\* gone out all the same, and the step that handles the reply to it writes
\* no entry but entries of that web app labelled plan_name = "unknown_plan".
C6_UnknownPlanOnFailure ==
    /\ [](\A k \in DOMAIN fetch :
            PlanFailed(fetch[k]) => tasks[k].pc \in {"metrics_request", "sleep"})
    /\ [][\A k \in DOMAIN fetch \cap DOMAIN fetch' :
            (PlanFailed(fetch[k]) /\ fetch[k].status = "pending"
                /\ fetch'[k].status # "pending")
            => \A key \in DOMAIN registry' :
                  ~SameEntry(registry, registry', key)
                  => /\ key.plan_name = "unknown_plan"
                     /\ key.web_app_name = AppsOf(k)[tasks[k].i]]_vars

\* Reached: the plan lookup answered with a non-200 status and the entry of
\* the web app is written under "unknown_plan".
C6_Witness ==
    \E k \in DOMAIN fetch :
        /\ fetch[k].plan = "http_error"
        /\ fetch[k].status = "ok"
        /\ Key("Requests", "G1", "W1", "unknown_plan") \in DOMAIN registry
        /\ registry[Key("Requests", "G1", "W1", "unknown_plan")] = Num(42)
        /\ Key("Requests", "G1", "W1", "PlanA") \notin DOMAIN registry

\* C7: one identity, one web app W1 in G1, and a metrics reply whose Requests
\* series ends in a sample with average = 42 and no total: when the first
\* cycle is complete the registry holds Requests{G1, W1, plan} = 42, plan
\* being the resolved plan or "unknown_plan".
C7_EndToEnd42 ==
    (/\ web_app_configs = <<Config("G1", <<"W1">>)>>
     /\ cycle = 1
     /\ loop_pc = "sleep"
     /\ fetch[1].data = RequestsAverage42)
    => \E plan \in {"PlanA", "unknown_plan"} :
          /\ Key("Requests", "G1", "W1", plan) \in DOMAIN registry
          /\ registry[Key("Requests", "G1", "W1", plan)] = Num(42)

C7_Witness ==
    /\ web_app_configs = <<Config("G1", <<"W1">>)>>
    /\ cycle = 1
    /\ loop_pc = "sleep"
    /\ fetch[1].data = RequestsAverage42
    /\ Key("Requests", "G1", "W1", "PlanA") \in DOMAIN registry
    /\ registry[Key("Requests", "G1", "W1", "PlanA")] = Num(42)

\* C10: within one sequence, a request never goes out before at least
\* PACING_SLEEP time units have passed since the sequence's previous request.
C10_PacedRequests ==
    [][\A k \in DOMAIN tasks \cap DOMAIN tasks' :
          (/\ tasks'[k].pc \in {"plan_request", "metrics_request"}
           /\ tasks'[k].pc # tasks[k].pc
           /\ tasks[k].pc # "created")
          => tasks[k].since_request >= PACING_SLEEP]_vars

(***************************************************************************)
(* MainExporter properties (SpecSupervisor).                               *)
(***************************************************************************)
Tracked(pid) == \E name \in WorkerNames : monitor[name].process = pid

\* A process started after pid to run the same worker script.
Replaced(pid) ==
    \E later \in DOMAIN procs : later > pid /\ procs[later].script = procs[pid].script

\* C8: while the supervisor runs, no exited process stays unobserved by its
\* monitor for more than one poll interval (10 time units); an exited
\* process no monitor holds any more has a replacement running the same
\* worker script; and every monitor, also after any number of restarts,
\* holds a process of the worker it was started for.
C8_ExitObservedAndRestarted ==
    sup_pc = "monitoring" =>
        /\ \A pid \in DOMAIN procs :
              /\ procs[pid].unobserved_for <= 10
              /\ (procs[pid].state = "exited" /\ ~Tracked(pid)) => Replaced(pid)
        /\ \A name \in WorkerNames :
              procs[monitor[name].process].script = WorkerScript(name)

\* A process that was itself a replacement has exited, stayed unobserved for
\* the whole poll interval and has been replaced in turn.
C8_Witness ==
    /\ sup_pc = "monitoring"
    /\ \E pid \in DOMAIN procs :
          /\ pid > 2
          /\ procs[pid].state = "exited"
          /\ procs[pid].unobserved_for = 10
          /\ ~Tracked(pid)
          /\ \E name \in WorkerNames :
                /\ monitor[name].process > pid
                /\ procs[monitor[name].process].script = procs[pid].script
                /\ procs[monitor[name].process].state = "running"

\* C9: once run has returned from the operator's shutdown, no process it or
\* its monitors started is running.
C9_NoWorkerLeftRunning ==
    sup_pc = "stopped" => \A pid \in DOMAIN procs : procs[pid].state = "exited"

\* C20: on every response get_metric_value raises nothing and returns a
\* number.
C20_AlwaysANumber ==
    gmv_pc = "returned"
    => /\ latest_value.kind = "return"
       /\ IsNumber(latest_value.val)

(***************************************************************************)
(* Committing a metrics response (Spec).                                   *)
(***************************************************************************)
\* The step in which sequence k handles the reply to its metrics request.
Replied(k) ==
    /\ k \in DOMAIN tasks \cap DOMAIN tasks'
    /\ tasks[k].pc = "metrics_request"
    /\ tasks'[k].pc # "metrics_request"

\* A 200 body of unexpected shape: an entry of it has no name.
Malformed(f) == f.data # NoBody /\ ~AllNamed(f.data)

\* C15: the step that handles a metrics response of unexpected shape
\* changes, creates or removes no registry entry of that web app for the
\* metrics of the request.
C15_MalformedKeepsEntries ==
    [][\A k \in DOMAIN tasks :
          (Replied(k) /\ Malformed(fetch'[k]))
          => \A key \in GroupKeys(k, AppsOf(k)[tasks[k].i]) :
                SameEntry(registry, registry', key)]_vars

(***************************************************************************)
(* Tokens across cycles (Spec).                                            *)
(***************************************************************************)
\* Sequence k acquired a token in the cycle before this one: none of its
\* web apps is among that cycle's failures.
TokenEarlier(k) ==
    /\ cycle >= 2
    /\ AppsOf(k) # <<>>
    /\ \A i \in DOMAIN AppsOf(k) : <<k, i>> \notin failed_earlier

\* C16: a sequence whose identity had a token acquired in the cycle before,
\* one cycle period ago and so well within a token's lifetime, holds a
\* token once it has started, also when this cycle's acquisition fails.
C16_TokenRetained ==
    \A k \in DOMAIN tasks :
        (TokenEarlier(k) /\ Started(k)) => tasks[k].access_token # ""

\* The registry keys sequence k writes for the web app it is at.
WrittenKeys(k) ==
    {Key(metric_groups[IntervalOf(k)][j], TaskConfig(k).resource_group_name,
         AppsOf(k)[tasks[k].i], tasks[k].plan_name) :
        j \in DOMAIN metric_groups[IntervalOf(k)]}

\* C18: no registry entry is ever removed, and an entry appears or changes
\* its value only in the step in which a sequence commits a response to
\* that very key; a changed entry then holds the value that sequence set.
\* So every key holds the last value written to it, however the sequences
\* interleave.
C18_WritesKeepOtherKeys ==
    [][/\ DOMAIN registry \subseteq DOMAIN registry'
       /\ \A key \in DOMAIN registry' :
             (key \notin DOMAIN registry \/ registry'[key] # registry[key])
             => \E k \in DOMAIN tasks :
                   /\ Replied(k)
                   /\ key \in WrittenKeys(k)
                   /\ key \in DOMAIN registry
                         => registry'[key] = get_metric_value(key.metric, fetch'[k].data)]_vars

\* Reached: within one cycle the PT5M and the PT6H sequence of the same web
\* app have both committed, and each one's entry holds what it wrote.
C18_Witness ==
    /\ loop_pc = "gather"
    /\ cycle = 1
    /\ \A k \in DOMAIN tasks : tasks[k].pc = "sleep" /\ fetch[k].status = "ok"
    /\ \E p5, p6 \in {"PlanA", "unknown_plan"} :
          /\ Key("Requests", "G1", "W1", p5) \in DOMAIN registry
          /\ registry[Key("Requests", "G1", "W1", p5)] = Num(42)
          /\ Key("FileSystemUsage", "G1", "W1", p6) \in DOMAIN registry
          /\ registry[Key("FileSystemUsage", "G1", "W1", p6)] = Num(7)

\* C19: in the step that handles a 200 response, the registry comes to
\* hold, for every metric name of the sequence's group, an entry under the
\* web app's labels equal to get_metric_value of that name on the response,
\* and no entry of a metric of another group changes.
C19_WholeCommit ==
    [][\A k \in DOMAIN tasks :
          (Replied(k) /\ fetch'[k].data # NoBody)
          => /\ \A key \in WrittenKeys(k) :
                   /\ key \in DOMAIN registry'
                   /\ registry'[key] = get_metric_value(key.metric, fetch'[k].data)
             /\ \A key \in DOMAIN registry' \ WrittenKeys(k) :
                   SameEntry(registry, registry', key)]_vars

(***************************************************************************)
(* The metrics requests of a cycle (Spec).                                 *)
(***************************************************************************)
\* C17: in every cycle the metrics requests of a sequence are those of its
\* web apps in configuration order, each at most once, and a sequence that
\* acquired its token and has returned has requested every one of them,
\* whatever failed on the way.
C17_OneRequestPerWebApp ==
    \A k \in DOMAIN tasks :
        /\ requested[k] = [i \in 1..Len(requested[k]) |-> i]
        /\ Len(requested[k]) <= Len(AppsOf(k))
        /\ (tasks[k].pc = "returned" /\ tasks[k].access_token # "")
              => Len(requested[k]) = Len(AppsOf(k))

\* Reached: a sequence of two web apps has returned; the request of the
\* first failed and both were requested, once each.
C17_Witness ==
    \E k \in DOMAIN tasks :
        /\ tasks[k].pc = "returned"
        /\ tasks[k].access_token # ""
        /\ <<k, 1>> \in failed_now
        /\ requested[k] = <<1, 2>>

(***************************************************************************)
(* Scheduling of the collection cycles (Spec).                             *)
(***************************************************************************)
\* C11: a cycle after the first starts exactly 60 time units after the
\* start of the cycle before it, however long that cycle took.
C11_FixedPeriod ==
    [][(loop_pc = "create_tasks" /\ loop_pc' = "gather" /\ cycle >= 1)
       => cycle_age = 60]_vars

(***************************************************************************)
(* The plan exporter's cycles (SpecPlan, SpecPlanFair).                    *)
(***************************************************************************)
\* C12: a cycle whose remote call is outstanding goes on, by an answer or
\* by the call giving up, and update_metrics reaches the sleep between the
\* cycles (or the program has ended on an error of its own).
C12_CycleCompletes ==
    (main.phase = "update" /\ main.pc \in RequestPcs)
        ~> (main.pc \in {"sleep", "crashed"})

\* C14: when the configuration file is missing or is not JSON, the program
\* does not end on the error: it runs with no entries, makes no request and
\* has no gauge.
C14_NoCrashOnBadConfig ==
    CONFIG_FILE.kind \in {"missing", "not_json"}
    => /\ main.pc \notin {"crashed"} \cup RequestPcs
       /\ config = <<>>
       /\ DOMAIN METRICS = {}

\* C21: a failure of one plan or one configuration entry in update_metrics
\* (token, plan listing, metrics request, or a metrics body of unexpected
\* shape) is skipped: update_metrics does not end on it, so the rest of the
\* cycle is processed and the loop goes on.
C21_FailureSkipped ==
    main.phase = "update" => main.pc # "crashed"

(***************************************************************************)
(* The plan worker (SpecPlanMetrics).                                      *)
(***************************************************************************)
\* C13: with a configuration loaded, the worker's run never comes to an end
\* by itself: when the coroutines of a cycle are done it sleeps and goes
\* round again.
C13_WorkerNeverReturns ==
    pm_web_app_configs # <<>> => pm_pc # "returned"

(***************************************************************************)
(* The query of a metrics request (Spec).                                  *)
(***************************************************************************)
\* The names of a comma-joined list.
SplitNames(joined) ==
    [n \in 1..((Len(joined) + 1) \div 2) |-> joined[2 * n - 1]]

\* ISO 8601 durations, in minutes.
Minutes == [PT5M |-> 5, PT1H |-> 60, PT6H |-> 360, PT24H |-> 1440]

\* C22: a metrics request in flight carries all the metric names of its
\* group, comma-joined, and the group's interval; its timespan is PT24H
\* exactly when the interval is PT6H and PT1H otherwise, and so covers at
\* least one whole interval.
C22_RequestParams ==
    \A k \in DOMAIN tasks :
        tasks[k].pc = "metrics_request" =>
            LET q == tasks[k].params IN
            /\ q.interval = IntervalOf(k)
            /\ Len(q.metricnames) = 2 * Len(metric_groups[IntervalOf(k)]) - 1
            /\ \A n \in 1..Len(q.metricnames) : n % 2 = 0 => q.metricnames[n] = ","
            /\ SplitNames(q.metricnames) = metric_groups[IntervalOf(k)]
            /\ q.timespan = (IF q.interval = "PT6H" THEN "PT24H" ELSE "PT1H")
            /\ Minutes[q.timespan] >= Minutes[q.interval]

\* Both kinds of request are in flight at once.
C22_Witness ==
    \E k, l \in DOMAIN tasks :
        /\ tasks[k].pc = "metrics_request" /\ tasks[k].params.interval = "PT6H"
        /\ tasks[k].params.timespan = "PT24H"
        /\ tasks[l].pc = "metrics_request" /\ tasks[l].params.interval = "PT5M"
        /\ tasks[l].params.timespan = "PT1H"

(***************************************************************************)
(* The registry across cycles (Spec).                                      *)
(***************************************************************************)
\* C23: for each metric, resource group and web app the registry holds at
\* most one entry: a web app is never exposed under two plan_name labels
\* (its resolved plan and "unknown_plan", or two plans) at once.
C23_OneEntryPerWebApp ==
    \A k1, k2 \in DOMAIN registry :
        (/\ k1.metric = k2.metric
         /\ k1.resource_group_name = k2.resource_group_name
         /\ k1.web_app_name = k2.web_app_name)
        => k1.plan_name = k2.plan_name

(***************************************************************************)
(* The sequences of one cycle against each other (Spec).                   *)
(***************************************************************************)
\* The keys sequence l can write in this cycle, whatever its plan lookups
\* answer.
ReachableKeys(l) ==
    UNION {GroupKeys(l, AppsOf(l)[i]) : i \in DOMAIN AppsOf(l)}

\* C24: with every (resource group, web app) in one configuration entry
\* only, the keys a sequence writes when it commits a response are keys no
\* other sequence of the cycle can write, the metric names of the groups
\* being disjoint; and when the cycle's gather is over, the entries of every
\* sequence that committed hold what that sequence computed from its own
\* response, whatever the order in which the sequences ran.
C24_DisjointWrites ==
    [][/\ \A k \in DOMAIN tasks :
             (tasks[k].pc = "metrics_request" /\ loop_pc' = "gather"
                 /\ tasks'[k].pc # "metrics_request")
             => \A l \in DOMAIN tasks \ {k} :
                   WrittenKeys(k) \cap ReachableKeys(l) = {}
       /\ (loop_pc = "gather" /\ loop_pc' = "sleep")
             => \A k \in DOMAIN tasks :
                   fetch[k].status = "ok"
                   => \A key \in WrittenKeys(k) :
                         /\ key \in DOMAIN registry
                         /\ registry[key] =
                               get_metric_value(key.metric, fetch[k].data)]_vars

\* Reached: the gather of a cycle is over and the PT5M and the PT6H
\* sequence of the same web app have both committed a response.
C24_Witness ==
    /\ loop_pc = "sleep"
    /\ Len(tasks) = 2
    /\ \A k \in DOMAIN tasks : tasks[k].pc = "returned" /\ fetch[k].status = "ok"
    /\ \E key \in DOMAIN registry : key.metric = "Requests"
    /\ \E key \in DOMAIN registry : key.metric = "FileSystemUsage"

C26_DistinctKeys ==
    ~(main.phase = "initialize" /\ main.pc = "crashed")

(***************************************************************************)
(* The SKU exporter's series (SpecSku).                                    *)
(***************************************************************************)
\* C27: each web app has at most one azure_webapp_plan_sku series: the
\* children of the gauge for one web app (name, resource group,
\* subscription) all carry the same sku and plan_name.
C27_OneSkuSeries ==
    \A k1, k2 \in DOMAIN web_app_sku_metric :
        (/\ k1.web_app_name = k2.web_app_name
         /\ k1.resource_group_name = k2.resource_group_name
         /\ k1.subscription_id = k2.subscription_id)
        => k1 = k2

(***************************************************************************)
(* The variant that commits after gathering (SpecCopy).                    *)
(***************************************************************************)
\* C28: every registry entry stands under the resource group and web app
\* of a configuration entry whose fetch sequence computed a value for that
\* metric, and holds that value (or the 0 of a child whose set() raised on a
\* null value): the gathered results are matched to the configuration
\* entries in task-creation order, whatever the order of completion and
\* whichever sequences returned an empty result.
C28_CommittedUnderOwnEntry ==
    \A key \in DOMAIN copy_registry :
        \E p \in copy_produced :
            /\ p.resource_group_name = key.resource_group_name
            /\ p.web_app_name = key.web_app_name
            /\ p.metric_name = key.metric
            /\ (p.value = copy_registry[key]
                   \/ (p.value = None /\ copy_registry[key] = Num(0)))

\* Reached: a sequence of the second entry returned before one of the
\* first, the other sequence of the first entry returned an empty result
\* for want of a token, and the values of both entries are committed.
C28_Witness ==
    /\ copy_loop_pc = "sleep"
    /\ Len(copy_tasks) = 4
    /\ copy_tasks[1].access_token = ""
    /\ \E m, n \in DOMAIN copy_order :
          m < n /\ copy_order[m] \in {3, 4} /\ copy_order[n] = 2
    /\ CopyKey("FileSystemUsage", "G1", "W1") \in DOMAIN copy_registry
    /\ CopyKey("Requests", "G2", "W2") \in DOMAIN copy_registry
    /\ copy_registry[CopyKey("Requests", "G2", "W2")] = Num(42)

(***************************************************************************)
(* The processes of a worker (SpecSupervisor).                             *)
(***************************************************************************)
\* The running processes of the worker of that name.
Live(ps, name) ==
    {pid \in DOMAIN ps : ps[pid].script = WorkerScript(name) /\ ps[pid].state = "running"}

\* C29: after every step each worker name has at most one running
\* process; and a step of the monitors that starts a process starts it for
\* a worker whose tracked process has exited, with the script that was
\* started for that worker at first, and tracks it from then on.
C29_OneLiveProcessPerWorker ==
    [][/\ \A name \in WorkerNames : Cardinality(Live(procs', name)) <= 1
       /\ (sup_pc = "monitoring" /\ Len(procs') > Len(procs))
             => \E name \in WorkerNames :
                   /\ procs[monitor[name].process].state = "exited"
                   /\ Len(procs') = Len(procs) + 1
                   /\ procs'[Len(procs')].script = procs[monitor[name].process].script
                   /\ procs'[Len(procs')].script = WorkerScript(name)
                   /\ monitor'[name].process = Len(procs')]_vars

\* Reached: both workers have been restarted, and each has exactly one
\* running process, the one its monitor tracks.
C29_Witness ==
    /\ sup_pc = "monitoring"
    /\ Len(procs) = 4
    /\ \A name \in WorkerNames :
          /\ monitor[name].process > 2
          /\ Live(procs, name) = {monitor[name].process}

====
